---- MODULE Spec2Model ----
(***************************************************************************)
(* InvoLogs: the deterministic post-processing core of the invoice         *)
(* extractor (canonicalizer, validator, confidence scorer) and the         *)
(* /extract handler that sequences them.                                   *)
(*                                                                         *)
(* Python values are tagged records: [t |-> tag, v |-> payload].  Text is  *)
(* a sequence of one-character strings, so that len, strip, substring and  *)
(* character-class tests are computed as the code computes them.  A float  *)
(* is an integer count of thousandths; scores are exact rationals n/d      *)
(* and the values returned after round(x, 2) are integer hundredths.       *)
(***************************************************************************)
EXTENDS Integers, Sequences, FiniteSets, TLC

VARIABLES call, ret, db

vars == <<call, ret, db>>

\* call is the operation under way with its argument and ret its result; db
\* is self.db of InvoiceModel, the invoices and audit_log collections in
\* insertion order
EmptyDb == [invoices |-> <<>>, audit_log |-> <<>>]

----------------------------------------------------------------------------
(* Python values *)

None == [t |-> "none"]
Absent == [t |-> "absent"]
Raise == [t |-> "raise"]
Pending == [t |-> "pending"]
Str(s) == [t |-> "str", v |-> s]
IntV(n) == [t |-> "int", v |-> n]
Float(m) == [t |-> "float", v |-> m]
Bool(b) == [t |-> "bool", v |-> b]
Dict(r) == [t |-> "dict", v |-> r]
List(s) == [t |-> "list", v |-> s]

IsStr(x) == x.t = "str"
IsDict(x) == x.t = "dict"
IsList(x) == x.t = "list"
IsNumber(x) == x.t \in {"int", "float", "bool"}
IsRaise(x) == x.t = "raise"

\* key in d (d a dict value whose record carries Absent for a missing key)
Has(d, k) == k \in DOMAIN d.v /\ d.v[k].t # "absent"

\* d.get(k, default)
GetD(d, k, default) == IF Has(d, k) THEN d.v[k] ELSE default

\* d.get(k)
Get(d, k) == GetD(d, k, None)

\* len(d) == 0 for a dict value
EmptyDict(d) == \A k \in DOMAIN d.v : d.v[k].t = "absent"

\* Python truthiness: `not x`
Falsy(x) ==
    CASE x.t \in {"none", "absent"} -> TRUE
      [] x.t = "str" -> x.v = <<>>
      [] x.t = "int" -> x.v = 0
      [] x.t = "float" -> x.v = 0
      [] x.t = "bool" -> ~x.v
      [] x.t = "list" -> x.v = <<>>
      [] x.t = "dict" -> EmptyDict(x)
      [] OTHER -> FALSE

Truthy(x) == ~Falsy(x)

----------------------------------------------------------------------------
(* Text *)

Digits == <<"0", "1", "2", "3", "4", "5", "6", "7", "8", "9">>
UpperChars == <<"A", "B", "C", "D", "E", "F", "G", "H", "I", "J", "K", "L", "M",
                "N", "O", "P", "Q", "R", "S", "T", "U", "V", "W", "X", "Y", "Z">>
LowerChars == <<"a", "b", "c", "d", "e", "f", "g", "h", "i", "j", "k", "l", "m",
                "n", "o", "p", "q", "r", "s", "t", "u", "v", "w", "x", "y", "z">>
Whitespace == {" ", "\t", "\n", "\r"}

Range(s) == {s[i] : i \in DOMAIN s}

\* the element of a one-element set; {F(v) : v \in {x}} evaluates x once
The(S) == CHOOSE r \in S : TRUE

isdigit(c) == c \in Range(Digits)
isalpha(c) == c \in Range(UpperChars) \cup Range(LowerChars)
isalnum(c) == isdigit(c) \/ isalpha(c)
isspace(c) == c \in Whitespace

DigitVal(c) == (CHOOSE i \in 1..10 : Digits[i] = c) - 1

lowerChar(c) ==
    IF c \in Range(UpperChars)
    THEN LowerChars[CHOOSE i \in 1..26 : UpperChars[i] = c]
    ELSE c

upperChar(c) ==
    IF c \in Range(LowerChars)
    THEN UpperChars[CHOOSE i \in 1..26 : LowerChars[i] = c]
    ELSE c

\* s.lower(), s.upper()
lower(s) == [i \in 1..Len(s) |-> lowerChar(s[i])]
upper(s) == [i \in 1..Len(s) |-> upperChar(s[i])]

\* s.strip()
strip(s) ==
    LET keep == {i \in 1..Len(s) : ~isspace(s[i])}
    IN  IF keep = {} THEN <<>>
        ELSE LET lo == CHOOSE i \in keep : \A j \in keep : i <= j
                 hi == CHOOSE i \in keep : \A j \in keep : j <= i
             IN  SubSeq(s, lo, hi)

\* sub occurs in s at position i
OccursAt(sub, s, i) ==
    /\ i >= 1
    /\ i + Len(sub) - 1 <= Len(s)
    /\ \A j \in 1..Len(sub) : s[i + j - 1] = sub[j]

\* `sub in s`
Contains(s, sub) == \E i \in 1..(Len(s) + 1) : OccursAt(sub, s, i)

\* s.count(c) for a single character c
count(s, c) == Cardinality({i \in 1..Len(s) : s[i] = c})

\* s.rindex(c) for a single character c that occurs in s (1-based)
rindex(s, c) == CHOOSE i \in 1..Len(s) : s[i] = c /\ \A j \in (i + 1)..Len(s) : s[j] # c

RECURSIVE replace(_, _, _)
\* s.replace(old, new), scanning left to right, non-overlapping (old non-empty)
replace(s, old, new) ==
    IF Len(s) = 0 THEN <<>>
    ELSE IF OccursAt(old, s, 1)
         THEN new \o replace(SubSeq(s, Len(old) + 1, Len(s)), old, new)
         ELSE <<s[1]>> \o replace(Tail(s), old, new)

\* every character of s is a digit, and s is not empty
AllDigits(s) == Len(s) > 0 /\ \A i \in 1..Len(s) : isdigit(s[i])

RECURSIVE DigitsVal(_)
\* int(s) for a string of digits
DigitsVal(s) ==
    IF Len(s) = 0 THEN 0
    ELSE 10 * DigitsVal(SubSeq(s, 1, Len(s) - 1)) + DigitVal(s[Len(s)])

RECURSIVE IntToStr(_)
\* str(n) for an int n >= 0
IntToStr(n) ==
    IF n < 10 THEN <<Digits[n + 1]>>
    ELSE IntToStr(n \div 10) \o <<Digits[(n % 10) + 1]>>

\* n copies of the character c
Rep(c, n) == [i \in 1..n |-> c]

----------------------------------------------------------------------------
(* Exact rationals n/d with d > 0, for the scorer's float arithmetic *)

RECURSIVE GCD(_, _)
GCD(a, b) == IF b = 0 THEN a ELSE GCD(b, a % b)

Abs(a) == IF a < 0 THEN -a ELSE a

Rat(n, d) ==
    LET g == GCD(Abs(n), d)
    IN  IF g = 0 THEN [t |-> "rat", n |-> 0, d |-> 1]
        ELSE [t |-> "rat", n |-> n \div g, d |-> d \div g]
RInt(n) == [t |-> "rat", n |-> n, d |-> 1]
RAdd(a, b) == Rat(a.n * b.d + b.n * a.d, a.d * b.d)
RMul(a, b) == Rat(a.n * b.n, a.d * b.d)
RDiv(a, b) == Rat(a.n * b.d, a.d * b.n)
RLe(a, b) == a.n * b.d <= b.n * a.d
RLt(a, b) == a.n * b.d < b.n * a.d
RGe(a, b) == RLe(b, a)
RMin(a, b) == IF RLe(a, b) THEN a ELSE b

\* round(x, 2) of a rational x >= 0, as an integer count of hundredths
\* (ties go to the even neighbour, as Python's round does on exact halves)
Round2(x) ==
    LET n == x.n * 100
        q == n \div x.d
        r == n % x.d
    IN  IF 2 * r > x.d THEN q + 1
        ELSE IF 2 * r = x.d THEN q + (q % 2)
        ELSE q

----------------------------------------------------------------------------
(* Calendar checks made by datetime.strptime *)

IsLeap(y) == (y % 4 = 0 /\ y % 100 # 0) \/ y % 400 = 0

DaysInMonth(y, m) ==
    IF m = 2 THEN (IF IsLeap(y) THEN 29 ELSE 28)
    ELSE IF m \in {4, 6, 9, 11} THEN 30 ELSE 31

\* re.match(r'^\d{4}-\d{2}-\d{2}$', s): `$` also matches before a final newline
MatchesDatePattern(s) ==
    LET body == IF Len(s) = 11 /\ s[11] = "\n" THEN SubSeq(s, 1, 10) ELSE s
    IN  /\ Len(body) = 10
        /\ \A i \in {1, 2, 3, 4, 6, 7, 9, 10} : isdigit(body[i])
        /\ body[5] = "-" /\ body[8] = "-"

\* re.match(r'^\d{2}:\d{2}:\d{2}$', s)
MatchesTimePattern(s) ==
    LET body == IF Len(s) = 9 /\ s[9] = "\n" THEN SubSeq(s, 1, 8) ELSE s
    IN  /\ Len(body) = 8
        /\ \A i \in {1, 2, 4, 5, 7, 8} : isdigit(body[i])
        /\ body[3] = ":" /\ body[6] = ":"

\* datetime.strptime(s, '%Y-%m-%d') succeeds, for s matching the date pattern
StrptimeDateOk(s) ==
    /\ Len(s) = 10
    /\ LET y == DigitsVal(SubSeq(s, 1, 4))
           m == DigitsVal(SubSeq(s, 6, 7))
           d == DigitsVal(SubSeq(s, 9, 10))
       IN  y >= 1 /\ m \in 1..12 /\ d >= 1 /\ d <= DaysInMonth(y, m)

\* datetime.strptime(s, '%H:%M:%S') succeeds, for s matching the time pattern
StrptimeTimeOk(s) ==
    /\ Len(s) = 8
    /\ DigitsVal(SubSeq(s, 1, 2)) <= 23
    /\ DigitsVal(SubSeq(s, 4, 5)) <= 59
    /\ DigitsVal(SubSeq(s, 7, 8)) <= 59

----------------------------------------------------------------------------
(* ConfidenceScorer *)

FIELD_WEIGHTS ==
    [company_name |-> 10, invoice_number |-> 8, date |-> 12, time |-> 3,
     vendor_name |-> 10, items |-> 25, subtotal |-> 10, tax |-> 12,
     total_amount |-> 14]

CONFIDENCE_THRESHOLDS ==
    [auto_approve |-> Rat(85, 100), needs_review |-> Rat(60, 100),
     low_confidence |-> Rat(50, 100)]

business_indicators ==
    {<<"c", "o", "m", "p", "a", "n", "y">>,
     <<"c", "o", "r", "p">>,
     <<"i", "n", "c">>,
     <<"l", "t", "d">>,
     <<"l", "l", "c">>,
     <<"p", "v", "t">>,
     <<"g", "m", "b", "h">>,
     <<"a", "g">>,
     <<"i", "n", "d", "u", "s", "t", "r", "i", "e", "s">>,
     <<"s", "o", "l", "u", "t", "i", "o", "n", "s">>}

score_company_name(company_name) ==
    IF Falsy(company_name) THEN RInt(0)
    ELSE IF ~IsStr(company_name) THEN Raise
    ELSE IF Len(strip(company_name.v)) = 0 THEN RInt(0)
    ELSE LET length_score ==
                 RMul(RMin(Rat(Len(company_name.v), 50), RInt(1)), RInt(100))
             has_indicator ==
                 \E indicator \in business_indicators :
                     Contains(lower(company_name.v), indicator)
         IN  RAdd(length_score, RInt(IF has_indicator THEN 50 ELSE 30))

\* str(x) for the values an invoice number can hold
PyStr(x) ==
    CASE x.t = "str" -> x.v
      [] x.t = "int" -> (IF x.v < 0 THEN <<"-">> ELSE <<>>) \o IntToStr(Abs(x.v))
      [] x.t = "bool" -> IF x.v THEN <<"T", "r", "u", "e">> ELSE <<"F", "a", "l", "s", "e">>
      [] OTHER -> <<"?">>

score_invoice_number(invoice_number) ==
    IF Falsy(invoice_number) THEN RInt(0)
    ELSE LET inv_num == strip(PyStr(invoice_number))
             has_alphanumeric == \E i \in 1..Len(inv_num) : isalnum(inv_num[i])
             has_digits == \E i \in 1..Len(inv_num) : isdigit(inv_num[i])
         IN  IF ~has_alphanumeric \/ ~has_digits THEN RInt(30)
             ELSE IF 5 <= Len(inv_num) /\ Len(inv_num) <= 20 THEN RInt(100)
             ELSE RInt(70)

score_date(date_str) ==
    IF Falsy(date_str) THEN RInt(0)
    ELSE IF ~IsStr(date_str) THEN Raise
    ELSE IF MatchesDatePattern(date_str.v)
         THEN (IF StrptimeDateOk(date_str.v) THEN RInt(100) ELSE RInt(50))
         ELSE RInt(60)

score_time(time_str) ==
    IF Falsy(time_str) THEN RInt(100)
    ELSE IF ~IsStr(time_str) THEN Raise
    ELSE IF MatchesTimePattern(time_str.v)
         THEN (IF StrptimeTimeOk(time_str.v) THEN RInt(100) ELSE RInt(50))
         ELSE RInt(60)

score_vendor_name(vendor_name) ==
    IF Falsy(vendor_name) THEN RInt(0)
    ELSE IF ~IsStr(vendor_name) THEN Raise
    ELSE IF Len(strip(vendor_name.v)) = 0 THEN RInt(0)
    ELSE LET length_score ==
                 RMul(RMin(Rat(Len(vendor_name.v), 40), RInt(1)), RInt(100))
             has_letters == \E i \in 1..Len(vendor_name.v) : isalpha(vendor_name.v[i])
         IN  IF ~has_letters THEN RInt(20) ELSE RAdd(length_score, RInt(20))

required_fields == <<"item_name", "quantity", "unit_price", "line_total">>

EmptyDictV == Dict(<<>>)

\* mutant of item_score: line_total is not among the required fields
item_score_three_fields(item) ==
    IF ~IsDict(item) THEN Raise
    ELSE LET base ==
                 25 * Cardinality({i \in 1..3 :
                          Has(item, required_fields[i])
                          /\ item.v[required_fields[i]].t # "none"})
             discount == GetD(item, "discount", EmptyDictV)
         IN  IF ~IsDict(discount) THEN Raise ELSE RInt(base)

\* the body of the loop over items: the score of one item, or Raise
item_score(item) ==
    IF ~IsDict(item) THEN Raise
    ELSE LET base ==
                 25 * Cardinality({i \in 1..Len(required_fields) :
                          Has(item, required_fields[i])
                          /\ item.v[required_fields[i]].t # "none"})
             discount == GetD(item, "discount", EmptyDictV)
         IN  IF ~IsDict(discount) THEN Raise
             ELSE IF Truthy(Get(discount, "has_discount"))
                     /\ Truthy(Get(discount, "actual_price"))
                     /\ Truthy(Get(discount, "discounted_price"))
                  THEN RInt(base + 10)
                  ELSE RInt(base)

RECURSIVE total_item_score(_, _)
\* total_item_score after the first n items, or Raise
total_item_score(items, n) ==
    IF n = 0 THEN RInt(0)
    ELSE LET before == total_item_score(items, n - 1)
         IN  IF IsRaise(before) THEN Raise
             ELSE LET s == item_score(items[n])
                  IN  IF IsRaise(s) THEN Raise ELSE RAdd(before, s)

\* mutant of score_items: an empty or missing list gets full credit
score_items_empty_full(items) ==
    IF Falsy(items) \/ ~IsList(items) THEN RInt(100)
    ELSE LET total == total_item_score(items.v, Len(items.v))
         IN  IF IsRaise(total) THEN Raise
             ELSE RMin(RDiv(total, RInt(Len(items.v))), RInt(100))

score_items(items) ==
    IF Falsy(items) \/ ~IsList(items) THEN RInt(0)
    ELSE LET total == total_item_score(items.v, Len(items.v))
         IN  IF IsRaise(total) THEN Raise
             ELSE RMin(RDiv(total, RInt(Len(items.v))), RInt(100))

score_pricing(pricing_summary) ==
    IF Falsy(pricing_summary) \/ ~IsDict(pricing_summary) THEN RInt(0)
    ELSE LET sub == IF Get(pricing_summary, "subtotal").t # "none" THEN 30 ELSE 0
             tax_info == GetD(pricing_summary, "tax", EmptyDictV)
             taxed == IsDict(tax_info) /\ Truthy(Get(tax_info, "has_tax"))
             tax_score ==
                 IF ~IsDict(tax_info) THEN 0
                 ELSE IF taxed
                      THEN (IF Get(tax_info, "tax_amount").t # "none"
                               /\ Get(tax_info, "tax_percent").t # "none"
                            THEN 30 ELSE 0)
                      ELSE 20
             tax_possible == IF IsDict(tax_info) THEN 30 ELSE 0
             tot == IF Get(pricing_summary, "total_amount").t # "none" THEN 40 ELSE 0
             score == sub + tax_score + tot
             total_possible == sub + tax_possible + tot
         IN  IF total_possible > 0
             THEN RMul(Rat(score, total_possible), RInt(100))
             ELSE RInt(0)

\* the key order of field_scores
ScoreFields ==
    <<"company_name", "invoice_number", "date", "time", "vendor_name", "items", "pricing">>

\* mutant of field_weight: pricing is given the weights of tax and total_amount
field_weight_pricing26(field) ==
    IF field = "pricing" THEN FIELD_WEIGHTS.tax + FIELD_WEIGHTS.total_amount
    ELSE IF field \in DOMAIN FIELD_WEIGHTS THEN FIELD_WEIGHTS[field] ELSE 10

\* cls.FIELD_WEIGHTS.get(field, 10)
field_weight(field) ==
    IF field \in DOMAIN FIELD_WEIGHTS THEN FIELD_WEIGHTS[field] ELSE 10

_get_confidence_level(score) ==
    IF RGe(score, RInt(90)) THEN "high"
    ELSE IF RGe(score, RInt(70)) THEN "medium"
    ELSE IF RGe(score, RInt(50)) THEN "low"
    ELSE "very_low"

\* the result of the except branch
ErrorResult ==
    [t |-> "ret", overall_confidence |-> 0, field_confidence |-> <<>>,
     confidence_level |-> "error", status |-> "error"]

\* the dict of the seven field scores, or Raise when a step of the try body fails
field_scores(invoice_data) ==
    IF ~IsDict(invoice_data) THEN Raise
    ELSE LET meta == GetD(invoice_data, "invoice_metadata", EmptyDictV)
             vendor == GetD(invoice_data, "vendor_info", EmptyDictV)
             pricing == GetD(invoice_data, "pricing_summary", EmptyDictV)
             items == GetD(invoice_data, "items", List(<<>>))
         IN  IF ~IsDict(meta) \/ ~IsDict(vendor) THEN Raise
             ELSE LET fs == [company_name |-> score_company_name(Get(meta, "company_name")),
                             invoice_number |-> score_invoice_number(Get(meta, "invoice_number")),
                             date |-> score_date(Get(meta, "date")),
                             time |-> score_time(Get(meta, "time")),
                             vendor_name |-> score_vendor_name(Get(vendor, "vendor_name")),
                             items |-> score_items(items),
                             pricing |-> score_pricing(pricing)]
                  IN  IF \E f \in DOMAIN fs : IsRaise(fs[f]) THEN Raise
                      ELSE [t |-> "scores", v |-> fs]

RECURSIVE total_weighted_score(_, _)
\* total_weighted_score after the first n fields of the loop
total_weighted_score(fs, n) ==
    IF n = 0 THEN RInt(0)
    ELSE The({RAdd(before, RMul(fs[ScoreFields[n]], RInt(field_weight(ScoreFields[n])))) :
                 before \in {total_weighted_score(fs, n - 1)}})

RECURSIVE total_weight(_)
total_weight(n) ==
    IF n = 0 THEN 0 ELSE total_weight(n - 1) + field_weight(ScoreFields[n])

\* overall_confidence before rounding
overall_of(fs) ==
    LET tw == total_weight(Len(ScoreFields))
        raw == IF tw > 0
               THEN RDiv(total_weighted_score(fs, Len(ScoreFields)), RInt(tw))
               ELSE RInt(0)
    IN  RMin(raw, RInt(100))

\* the status chosen from the unrounded overall confidence
status_of(overall_confidence) ==
    IF RGe(overall_confidence, RMul(CONFIDENCE_THRESHOLDS.auto_approve, RInt(100)))
    THEN "auto_approved"
    ELSE IF RGe(overall_confidence, RMul(CONFIDENCE_THRESHOLDS.needs_review, RInt(100)))
         THEN "needs_review"
         ELSE "low_confidence"

\* the try body of calculate_confidence: the result dict, or Raise
score_body(invoice_data) ==
    LET scored == field_scores(invoice_data)
    IN  IF IsRaise(scored) THEN Raise
        ELSE LET fs == scored.v
                 overall_confidence == overall_of(fs)
             IN  [t |-> "ret",
                  overall_confidence |-> Round2(overall_confidence),
                  field_confidence |-> [f \in DOMAIN fs |-> Round2(fs[f])],
                  confidence_level |-> _get_confidence_level(overall_confidence),
                  status |-> status_of(overall_confidence)]

\* mutant of calculate_confidence: no except branch, a failure propagates
calculate_confidence_no_except(invoice_data) == score_body(invoice_data)

calculate_confidence(invoice_data) ==
    LET r == score_body(invoice_data)
    IN  IF IsRaise(r) THEN ErrorResult ELSE r

----------------------------------------------------------------------------
(* InvoiceValidator: each check returns (is_valid, error) or raises *)

Valid == [t |-> "ret", valid |-> TRUE, error |-> None]
Invalid(msg) == [t |-> "ret", valid |-> FALSE, error |-> msg]

validate_company_name(name) ==
    IF Falsy(name) THEN Invalid("Company name is required")
    ELSE IF ~IsStr(name) THEN Raise
    ELSE IF Len(strip(name.v)) = 0 THEN Invalid("Company name is required")
    ELSE IF Len(name.v) < 2 THEN Invalid("Company name too short (minimum 2 characters)")
    ELSE IF Len(name.v) > 200 THEN Invalid("Company name too long (maximum 200 characters)")
    ELSE Valid

validate_date(date) ==
    IF Falsy(date) THEN Invalid("Date is required")
    ELSE IF ~IsStr(date) THEN Raise
    ELSE IF ~MatchesDatePattern(date.v) THEN Invalid("Date must be in YYYY-MM-DD format")
    ELSE Valid

validate_time(time) ==
    IF Falsy(time) THEN Valid
    ELSE IF ~IsStr(time) THEN Raise
    ELSE IF ~MatchesTimePattern(time.v) THEN Invalid("Time must be in HH:MM:SS format")
    ELSE Valid

\* the body of the loop over enumerate(items), for the item at 0-based index i
validate_item(i, item) ==
    IF ~IsDict(item) THEN Invalid("Item " \o ToString(i) \o " is not a dictionary")
    ELSE IF Falsy(Get(item, "item_name"))
         THEN Invalid("Item " \o ToString(i) \o " is missing name")
    ELSE IF ~IsNumber(Get(item, "quantity"))
         THEN Invalid("Item " \o ToString(i) \o " has invalid quantity")
    ELSE IF ~IsNumber(Get(item, "unit_price"))
         THEN Invalid("Item " \o ToString(i) \o " has invalid unit_price")
    ELSE Valid

RECURSIVE validate_items_from(_, _)
\* the loop of validate_items from the item at 1-based position n on
validate_items_from(items, n) ==
    IF n > Len(items) THEN Valid
    ELSE LET r == validate_item(n - 1, items[n])
         IN  IF ~r.valid THEN r ELSE validate_items_from(items, n + 1)

validate_items(items) ==
    IF Falsy(items) \/ ~IsList(items) THEN Invalid("Items must be a non-empty list")
    ELSE validate_items_from(items.v, 1)

validate_pricing(pricing) ==
    IF Falsy(pricing) \/ ~IsDict(pricing) THEN Invalid("Pricing summary is required")
    ELSE IF Get(pricing, "subtotal").t = "none" THEN Invalid("Subtotal is required")
    ELSE IF ~IsNumber(Get(pricing, "subtotal")) THEN Invalid("Subtotal must be numeric")
    ELSE IF Get(pricing, "total_amount").t = "none" THEN Invalid("Total amount is required")
    ELSE IF ~IsNumber(Get(pricing, "total_amount"))
         THEN Invalid("Total amount must be numeric")
    ELSE Valid

\* f"{section}: {error}"
Prefixed(section, r) == Invalid(section \o ": " \o r.error)

\* mutant of validate_invoice: pricing is checked before items
validate_invoice_pricing_first(invoice_data) ==
    IF ~IsDict(invoice_data) THEN Raise
    ELSE LET meta == GetD(invoice_data, "invoice_metadata", EmptyDictV)
         IN  IF ~IsDict(meta) THEN Raise
             ELSE LET c == validate_company_name(Get(meta, "company_name"))
                      d == validate_date(Get(meta, "date"))
                      tm == validate_time(Get(meta, "time"))
                      i == validate_items(Get(invoice_data, "items"))
                      p == validate_pricing(Get(invoice_data, "pricing_summary"))
                  IN  IF IsRaise(c) THEN Raise
                      ELSE IF ~c.valid THEN Prefixed("Metadata", c)
                      ELSE IF IsRaise(d) THEN Raise
                      ELSE IF ~d.valid THEN Prefixed("Metadata", d)
                      ELSE IF IsRaise(tm) THEN Raise
                      ELSE IF ~tm.valid THEN Prefixed("Metadata", tm)
                      ELSE IF ~p.valid THEN Prefixed("Pricing", p)
                      ELSE IF ~i.valid THEN Prefixed("Items", i)
                      ELSE Valid

validate_invoice(invoice_data) ==
    IF ~IsDict(invoice_data) THEN Raise
    ELSE LET meta == GetD(invoice_data, "invoice_metadata", EmptyDictV)
         IN  IF ~IsDict(meta) THEN Raise
             ELSE LET c == validate_company_name(Get(meta, "company_name"))
                      d == validate_date(Get(meta, "date"))
                      tm == validate_time(Get(meta, "time"))
                      i == validate_items(Get(invoice_data, "items"))
                      p == validate_pricing(Get(invoice_data, "pricing_summary"))
                  IN  IF IsRaise(c) THEN Raise
                      ELSE IF ~c.valid THEN Prefixed("Metadata", c)
                      ELSE IF IsRaise(d) THEN Raise
                      ELSE IF ~d.valid THEN Prefixed("Metadata", d)
                      ELSE IF IsRaise(tm) THEN Raise
                      ELSE IF ~tm.valid THEN Prefixed("Metadata", tm)
                      ELSE IF ~i.valid THEN Prefixed("Items", i)
                      ELSE IF ~p.valid THEN Prefixed("Pricing", p)
                      ELSE Valid

----------------------------------------------------------------------------
(* DataCanonicalizer: primitive normalizers *)

RECURSIVE SplitOn(_, _)
\* s.split(c) for a single character c
SplitOn(s, c) ==
    IF \A i \in 1..Len(s) : s[i] # c THEN <<s>>
    ELSE LET k == CHOOSE i \in 1..Len(s) : s[i] = c /\ \A j \in 1..(i - 1) : s[j] # c
         IN  <<SubSeq(s, 1, k - 1)>> \o SplitOn(SubSeq(s, k + 1, Len(s)), c)

\* a strptime field of one or two digits
TimeField(p) == Len(p) \in {1, 2} /\ AllDigits(p)

\* datetime.strptime(s, fmt) for fmt "%H:%M:%S" (n = 3) or "%H:%M" (n = 2):
\* the parsed fields, or Raise when it raises ValueError
strptime_time(s, n) ==
    LET parts == SplitOn(s, ":")
    IN  IF /\ Len(parts) = n
           /\ \A i \in 1..n : TimeField(parts[i])
           /\ DigitsVal(parts[1]) <= 23
           /\ DigitsVal(parts[2]) <= 59
           /\ n = 3 => DigitsVal(parts[3]) <= 59
        THEN [t |-> "time", h |-> DigitsVal(parts[1]), m |-> DigitsVal(parts[2]),
              s |-> IF n = 3 THEN DigitsVal(parts[3]) ELSE 0]
        ELSE Raise

\* "%02d"
TwoDigits(n) == <<Digits[(n \div 10) + 1], Digits[(n % 10) + 1]>>

\* strftime("%H:%M:%S")
FormatTime(h, m, sec) == TwoDigits(h) \o <<":">> \o TwoDigits(m) \o <<":">> \o TwoDigits(sec)

\* time_str.replace('am', '').replace('pm', '').replace('AM', '').replace('PM', '').strip()
strip_markers(s) ==
    strip(replace(replace(replace(replace(s, <<"a", "m">>, <<>>), <<"p", "m">>, <<>>),
                          <<"A", "M">>, <<>>), <<"P", "M">>, <<>>))

canonicalize_time(time_str) ==
    IF Falsy(time_str) THEN None
    ELSE IF ~IsStr(time_str) THEN Raise
    ELSE IF strip(time_str.v) = <<>> THEN None
    ELSE LET cleaned == strip_markers(time_str.v)
             full == strptime_time(cleaned, 3)
             short == strptime_time(cleaned, 2)
         IN  IF ~IsRaise(full) THEN Str(FormatTime(full.h, full.m, full.s))
             ELSE IF ~IsRaise(short) THEN Str(FormatTime(short.h, short.m, 0))
             ELSE None

\* the place of a character that a substitution has removed
Removed == ""
Kept(c) == c # Removed

\* re.sub(r'\s+', ' ', s): every run of whitespace becomes one space (its
\* last character is the one replaced, the others go)
collapse_spaces(s) ==
    SelectSeq([i \in 1..Len(s) |->
                  IF ~isspace(s[i]) THEN s[i]
                  ELSE IF i < Len(s) /\ isspace(s[i + 1]) THEN Removed
                  ELSE " "],
              Kept)

\* the length of the run of whitespace that ends at position i of s
RunBefore(s, i) == Cardinality({k \in 1..i : \A j \in k..i : isspace(s[j])})

\* re.sub(r'\s\s', ' ', s): every pair of whitespace characters becomes one
\* space, pairing each run from its left end
collapse_pairs(s) ==
    SelectSeq([i \in 1..Len(s) |->
                  IF ~isspace(s[i]) THEN s[i]
                  ELSE IF RunBefore(s, i) % 2 = 0 THEN Removed
                  ELSE IF i < Len(s) /\ isspace(s[i + 1]) THEN " "
                  ELSE s[i]],
              Kept)

\* clean_string collapsing whitespace pairwise, so that a run of three or more
\* needs several passes
clean_string_pairs(text) ==
    IF Falsy(text) THEN None
    ELSE LET cleaned == strip(collapse_pairs(PyStr(text)))
         IN  IF cleaned = <<>> THEN None ELSE Str(cleaned)

\* str(text) for the values a text field can hold
clean_string(text) ==
    IF Falsy(text) THEN None
    ELSE LET cleaned == strip(collapse_spaces(PyStr(text)))
         IN  IF cleaned = <<>> THEN None ELSE Str(cleaned)

code_INR == Str(<<"I", "N", "R">>)
code_USD == Str(<<"U", "S", "D">>)
code_EUR == Str(<<"E", "U", "R">>)
code_GBP == Str(<<"G", "B", "P">>)
code_JPY == Str(<<"J", "P", "Y">>)
code_CHF == Str(<<"C", "H", "F">>)
code_AUD == Str(<<"A", "U", "D">>)
code_CAD == Str(<<"C", "A", "D">>)

\* the (symbol, currency) list scanned by normalize_currency_amount, in its order
currency_symbols ==
    <<[symbol |-> "₹", currency |-> code_INR], [symbol |-> "$", currency |-> code_USD],
      [symbol |-> "€", currency |-> code_EUR], [symbol |-> "£", currency |-> code_GBP]>>

\* the currency of the first listed symbol that occurs in the text, else None
detect_currency(amount_str) ==
    LET hits == {i \in 1..Len(currency_symbols) :
                    Contains(amount_str, <<currency_symbols[i].symbol>>)}
    IN  IF hits = {} THEN None
        ELSE currency_symbols[CHOOSE i \in hits : \A j \in hits : i <= j].currency

\* re.sub(r'[^\d.,\-]', '', s)
KeptInAmount(c) == isdigit(c) \/ c \in {".", ",", "-"}
strip_non_amount(s) == SelectSeq(s, KeptInAmount)

RECURSIVE remove_char(_, _)
\* s.replace(c, '')
remove_char(s, c) ==
    IF Len(s) = 0 THEN <<>>
    ELSE IF s[1] = c THEN remove_char(Tail(s), c)
    ELSE <<s[1]>> \o remove_char(Tail(s), c)

\* s.replace(c, d) for single characters
replace_char(s, c, d) == [i \in 1..Len(s) |-> IF s[i] = c THEN d ELSE s[i]]

\* re.search(r'\d{3},\d{2}$', s)
EndsWithDecimalComma(s) ==
    /\ Len(s) >= 6
    /\ s[Len(s) - 2] = ","
    /\ \A i \in {Len(s) - 5, Len(s) - 4, Len(s) - 3, Len(s) - 1, Len(s)} : isdigit(s[i])

\* re.sub(r'\.(?=\d{3}[.,])', '', s): drop each dot followed by three digits
\* and then a dot or comma
remove_grouping_dots(s) ==
    LET grouping(i) ==
            /\ s[i] = "."
            /\ i + 4 <= Len(s)
            /\ \A j \in (i + 1)..(i + 3) : isdigit(s[j])
            /\ s[i + 4] \in {".", ","}
        keep == {i \in 1..Len(s) : ~grouping(i)}
        nth(k) == CHOOSE i \in keep : Cardinality({j \in keep : j < i}) = k - 1
    IN  [k \in 1..Cardinality(keep) |-> s[nth(k)]]

\* the separator handling of normalize_currency_amount on the cleaned text
resolve_separators(cleaned) ==
    IF count(cleaned, ",") = 1 /\ count(cleaned, ".") = 1
    THEN (IF rindex(cleaned, ",") > rindex(cleaned, ".")
          THEN replace_char(remove_char(cleaned, "."), ",", ".")
          ELSE remove_char(cleaned, ","))
    ELSE IF count(cleaned, ",") = 1
    THEN (IF EndsWithDecimalComma(cleaned)
          THEN replace_char(cleaned, ",", ".")
          ELSE remove_char(cleaned, ","))
    ELSE IF count(cleaned, ".") > 1
    THEN (LET undotted == remove_grouping_dots(cleaned)
          IN  IF Contains(undotted, <<",">>) THEN replace_char(undotted, ",", ".")
              ELSE undotted)
    ELSE cleaned

RECURSIVE Pow10(_)
Pow10(k) == IF k = 0 THEN 1 ELSE 10 * Pow10(k - 1)

\* round(float(s), 2) as a count of hundredths, or Raise when float(s) raises
\* ValueError; s holds only digits, dots, commas and minus signs
\* (the decimal value is rounded exactly; a third decimal of 5, where the
\* binary float can fall on either side, does not occur in the amounts used)
parse_float_2dp(s) ==
    LET neg == Len(s) > 0 /\ s[1] = "-"
        body == IF neg THEN Tail(s) ELSE s
        parts == SplitOn(body, ".")
        whole == parts[1]
        frac == IF Len(parts) = 2 THEN parts[2] ELSE <<>>
        digits_only(p) == \A i \in 1..Len(p) : isdigit(p[i])
    IN  IF /\ Len(parts) <= 2
           /\ digits_only(whole) /\ digits_only(frac)
           /\ Len(whole) + Len(frac) > 0
        THEN LET h == 100 * DigitsVal(whole)
                      + Round2(Rat(DigitsVal(frac), Pow10(Len(frac))))
             IN  [t |-> "hundredths", v |-> IF neg THEN -h ELSE h]
        ELSE Raise

AmountResult(value, currency) == [t |-> "ret", value |-> value, currency |-> currency]

\* the try body of normalize_currency_amount for a text amount
normalize_text_amount(amount_str) ==
    LET stripped == strip(amount_str)
        detected_currency == detect_currency(stripped)
        cleaned == resolve_separators(strip_non_amount(stripped))
        parsed == parse_float_2dp(cleaned)
    IN  IF IsRaise(parsed) THEN AmountResult(None, None)
        ELSE AmountResult(Float(10 * parsed.v), detected_currency)

normalize_currency_amount(amount) ==
    CASE amount.t \in {"none", "absent"} -> AmountResult(None, None)
      [] amount.t = "int" -> AmountResult(Float(1000 * amount.v), None)
      [] amount.t = "float" -> AmountResult(amount, None)
      [] amount.t = "bool" -> AmountResult(Float(IF amount.v THEN 1000 ELSE 0), None)
      [] OTHER -> normalize_text_amount(PyStr(amount))

\* date_parser.parse(s).strftime("%Y-%m-%d") on the date texts the documents
\* carry: an ISO date with a real calendar day parses to itself, text without a
\* date raises; the other formats dateutil reads are not modelled
date_parser_parse(s) ==
    IF /\ Len(s) = 10
       /\ \A i \in {1, 2, 3, 4, 6, 7, 9, 10} : isdigit(s[i])
       /\ s[5] = "-" /\ s[8] = "-"
       /\ StrptimeDateOk(s)
    THEN Str(s)
    ELSE Raise

canonicalize_date(date_str) ==
    IF Falsy(date_str) THEN None
    ELSE IF ~IsStr(date_str) THEN Raise
    ELSE IF strip(date_str.v) = <<>> THEN None
    ELSE LET parsed_date == date_parser_parse(date_str.v)
         IN  IF IsRaise(parsed_date) THEN None ELSE parsed_date

\* CURRENCY_MAPPINGS in insertion order
CURRENCY_MAPPINGS ==
    <<[key |-> <<"d", "o", "l", "l", "a", "r">>, value |-> code_USD],
      [key |-> <<"u", "s", "d">>, value |-> code_USD],
      [key |-> <<"$">>, value |-> code_USD],
      [key |-> <<"r", "u", "p", "e", "e">>, value |-> code_INR],
      [key |-> <<"i", "n", "r">>, value |-> code_INR],
      [key |-> <<"₹">>, value |-> code_INR],
      [key |-> <<"e", "u", "r", "o">>, value |-> code_EUR],
      [key |-> <<"e", "u", "r">>, value |-> code_EUR],
      [key |-> <<"€">>, value |-> code_EUR],
      [key |-> <<"p", "o", "u", "n", "d">>, value |-> code_GBP],
      [key |-> <<"g", "b", "p">>, value |-> code_GBP],
      [key |-> <<"£">>, value |-> code_GBP],
      [key |-> <<"y", "e", "n">>, value |-> code_JPY],
      [key |-> <<"j", "p", "y">>, value |-> code_JPY],
      [key |-> <<"¥">>, value |-> code_JPY],
      [key |-> <<"f", "r", "a", "n", "c">>, value |-> code_CHF],
      [key |-> <<"c", "h", "f">>, value |-> code_CHF],
      [key |-> <<"a", "u", "s", "t", "r", "a", "l", "i", "a", "n", " ", "d", "o", "l", "l", "a", "r">>, value |-> code_AUD],
      [key |-> <<"a", "u", "d">>, value |-> code_AUD],
      [key |-> <<"c", "a", "n", "a", "d", "i", "a", "n", " ", "d", "o", "l", "l", "a", "r">>, value |-> code_CAD],
      [key |-> <<"c", "a", "d">>, value |-> code_CAD]>>

canonicalize_currency_code(currency) ==
    IF Falsy(currency) THEN code_USD
    ELSE IF ~IsStr(currency) THEN Raise
    ELSE LET currency_upper == strip(upper(currency.v))
             hits == {i \in 1..Len(CURRENCY_MAPPINGS) :
                         Contains(lower(currency_upper), CURRENCY_MAPPINGS[i].key)}
         IN  IF Len(currency_upper) = 3 /\ \A i \in 1..3 : isalpha(currency_upper[i])
             THEN Str(currency_upper)
             ELSE IF hits = {} THEN code_USD
             ELSE CURRENCY_MAPPINGS[CHOOSE i \in hits : \A j \in hits : i <= j].value

\* the suffix list without its last entry
vendor_suffixes_no_pvt == <<<<"i", "n", "c">>, <<"l", "t", "d">>, <<"l", "l", "c">>, <<"c", "o", "r", "p">>, <<"c", "o", "m", "p", "a", "n", "y">>>>

vendor_suffixes == <<<<"i", "n", "c">>, <<"l", "t", "d">>, <<"l", "l", "c">>, <<"c", "o", "r", "p">>, <<"c", "o", "m", "p", "a", "n", "y">>, <<"p", "v", "t">>>>

\* re.sub(r'[^a-z0-9\s]', '', s)
KeptInVendor(c) == c \in Range(LowerChars) \/ isdigit(c) \/ isspace(c)

RECURSIVE JoinWords(_)
JoinWords(words) ==
    IF Len(words) = 0 THEN <<>>
    ELSE IF Len(words) = 1 THEN words[1]
    ELSE words[1] \o <<" ">> \o JoinWords(Tail(words))

RECURSIVE drop_words(_, _)
\* the words that are neither empty nor the suffix
drop_words(words, suffix) ==
    IF Len(words) = 0 THEN <<>>
    ELSE IF Head(words) = <<>> \/ Head(words) = suffix THEN drop_words(Tail(words), suffix)
    ELSE <<Head(words)>> \o drop_words(Tail(words), suffix)

\* re.sub(rf'\b{suffix}\b', '', s) followed by the whitespace collapse and
\* strip, on text of lower-case letters, digits and single spaces: the words
\* equal to the suffix go
remove_suffix(normalized, suffix) ==
    JoinWords(drop_words(SplitOn(normalized, " "), suffix))

RECURSIVE remove_suffixes(_, _)
\* the suffix loop of canonicalize_vendor_name after its first n suffixes
remove_suffixes(normalized, n) ==
    IF n = 0 THEN normalized
    ELSE The({remove_suffix(before, vendor_suffixes[n]) :
                 before \in {remove_suffixes(normalized, n - 1)}})

txt_VENDOR_UNKNOWN == Str(<<"V", "E", "N", "D", "O", "R", "_", "U", "N", "K", "N", "O", "W", "N">>)
txt_Unknown == Str(<<"U", "n", "k", "n", "o", "w", "n">>)
vendor_id_prefix == <<"V", "E", "N", "D", "O", "R", "_">>

\* hex8 is uuid.uuid4().hex[:8].upper() and now stands for
\* datetime.now().isoformat(), both chosen by the environment
canonicalize_vendor_name(vendor_name, hex8, now) ==
    IF Falsy(vendor_name)
    THEN Dict([canonical_id |-> txt_VENDOR_UNKNOWN, normalized_name |-> txt_Unknown,
               raw_input |-> vendor_name])
    ELSE IF ~IsStr(vendor_name) THEN Raise
    ELSE IF strip(vendor_name.v) = <<>>
    THEN Dict([canonical_id |-> txt_VENDOR_UNKNOWN, normalized_name |-> txt_Unknown,
               raw_input |-> vendor_name])
    ELSE LET kept == SelectSeq(lower(vendor_name.v), KeptInVendor)
             normalized == strip(collapse_spaces(kept))
         IN  Dict([canonical_id |-> Str(vendor_id_prefix \o hex8),
                   normalized_name |-> Str(remove_suffixes(normalized, Len(vendor_suffixes))),
                   raw_input |-> vendor_name,
                   first_seen |-> now])

----------------------------------------------------------------------------
(* DataCanonicalizer.canonicalize_invoice.  The document is rewritten in     *)
(* place one assignment at a time; an exception in any assignment ends the   *)
(* try body and the document is returned as rewritten so far.                *)

\* d[k] = val on a dict value
SetKey(d, k, val) ==
    Dict([x \in (DOMAIN d.v) \cup {k} |-> IF x = k THEN val ELSE d.v[x]])

RECURSIVE GetPath(_, _)
\* the value reached from x through the keys and list positions of path
GetPath(x, path) ==
    IF Len(path) = 0 THEN x ELSE GetPath(x.v[Head(path)], Tail(path))

RECURSIVE SetPath(_, _, _, _)
\* x with the dict reached through path given d[k] = val
SetPath(x, path, k, val) ==
    IF Len(path) = 0 THEN SetKey(x, k, val)
    ELSE IF IsList(x)
    THEN List([x.v EXCEPT ![Head(path)] = SetPath(x.v[Head(path)], Tail(path), k, val)])
    ELSE Dict([x.v EXCEPT ![Head(path)] = SetPath(x.v[Head(path)], Tail(path), k, val)])

\* one assignment `container[key] = op(container.get(src))`
Assign(path, key, src, op) == [path |-> path, key |-> key, src |-> src, op |-> op]

\* final_currency of the pricing section: total_amount is read back after it
\* has been replaced by its normalized value
final_currency(pricing) ==
    LET raw_currency == Get(pricing, "currency")
        amount_val == Get(pricing, "total_amount")
        detected_currency == normalize_currency_amount(amount_val).currency
    IN  IF Truthy(detected_currency) THEN detected_currency
        ELSE canonicalize_currency_code(raw_currency)

\* the right-hand side of an assignment, or Raise
ApplyOp(op, container, src, env) ==
    CASE op = "date" -> canonicalize_date(Get(container, src))
      [] op = "time" -> canonicalize_time(Get(container, src))
      [] op = "clean" -> clean_string(Get(container, src))
      [] op = "amount" -> normalize_currency_amount(Get(container, src)).value
      [] op = "vendor" -> canonicalize_vendor_name(Get(container, src), env.hex8, env.now)
      [] op = "currency" -> final_currency(container)

\* st is [doc, raised]; the assignment stores val, or raises with it
Stored(st, a, val) ==
    IF IsRaise(val) THEN [st EXCEPT !.raised = TRUE]
    ELSE [st EXCEPT !.doc = SetPath(st.doc, a.path, a.key, val)]

\* .get on a container that is not a dict raises
AssignFrom(st, a, env) ==
    IF st.raised THEN st
    ELSE LET container == GetPath(st.doc, a.path)
         IN  IF ~IsDict(container) THEN [st EXCEPT !.raised = TRUE]
             ELSE The({Stored(st, a, val) :
                          val \in {ApplyOp(a.op, container, a.src, env)}})

RunAssign(before, a, env) == The({AssignFrom(st, a, env) : st \in {before}})

RECURSIVE RunAssigns(_, _, _)
RunAssigns(st, assigns, env) ==
    IF Len(assigns) = 0 THEN st
    ELSE The({RunAssigns(after, Tail(assigns), env) :
                 after \in {RunAssign(st, Head(assigns), env)}})

\* `k in d and isinstance(d[k], dict)` for the dict reached through path
HasDictAt(st, path, k) ==
    LET container == GetPath(st.doc, path)
    IN  Has(container, k) /\ IsDict(container.v[k])

canonicalize_metadata(st, env) ==
    IF st.raised \/ ~Has(st.doc, "invoice_metadata") THEN st
    ELSE LET m == <<"invoice_metadata">>
         IN  RunAssigns(st, <<Assign(m, "date", "date", "date"),
                              Assign(m, "time", "time", "time"),
                              Assign(m, "due_date", "due_date", "date"),
                              Assign(m, "company_name", "company_name", "clean"),
                              Assign(m, "invoice_number", "invoice_number", "clean"),
                              Assign(m, "invoice_type", "invoice_type", "clean")>>, env)

canonicalize_vendor_info(st, env) ==
    IF st.raised \/ ~Has(st.doc, "vendor_info") THEN st
    ELSE LET v == <<"vendor_info">>
         IN  RunAssigns(st, <<Assign(v, "vendor_name_canonical", "vendor_name", "vendor"),
                              Assign(v, "vendor_address", "vendor_address", "clean"),
                              Assign(v, "vendor_tax_id", "vendor_tax_id", "clean")>>, env)

\* the discount block of the loop body, named being the state after the
\* item's own fields
canonicalize_discount(named, i, env) ==
    LET d == <<"items", i, "discount">>
    IN  IF named.raised \/ ~HasDictAt(named, <<"items", i>>, "discount") THEN named
        ELSE RunAssigns(named,
                 <<Assign(d, "discount_percent", "discount_percent", "amount"),
                   Assign(d, "discount_amount", "discount_amount", "amount"),
                   Assign(d, "actual_price", "actual_price", "amount"),
                   Assign(d, "discount_price", "discounted_price", "amount")>>, env)

\* the loop body of the items section for the item at position i
canonicalize_item(st, i, env) ==
    LET it == <<"items", i>>
    IN  The({canonicalize_discount(named, i, env) :
                named \in {RunAssigns(st,
                    <<Assign(it, "item_name", "item_name", "clean"),
                      Assign(it, "unit", "unit", "clean"),
                      Assign(it, "quantity", "quantity", "amount"),
                      Assign(it, "unit_price", "unit_price", "amount"),
                      Assign(it, "line_total", "line_total", "amount")>>, env)}})

RECURSIVE canonicalize_items_upto(_, _, _)
\* the items loop after its first n iterations
canonicalize_items_upto(st, n, env) ==
    IF n = 0 THEN st
    ELSE The({IF before.raised THEN before ELSE canonicalize_item(before, n, env) :
                 before \in {canonicalize_items_upto(st, n - 1, env)}})

canonicalize_items(st, env) ==
    IF st.raised \/ ~Has(st.doc, "items") \/ ~IsList(st.doc.v["items"]) THEN st
    ELSE canonicalize_items_upto(st, Len(st.doc.v["items"].v), env)

\* the tax block of the pricing section
canonicalize_tax(amounts, env) ==
    LET t == <<"pricing_summary", "tax">>
    IN  IF amounts.raised \/ ~HasDictAt(amounts, <<"pricing_summary">>, "tax") THEN amounts
        ELSE RunAssigns(amounts,
                 <<Assign(t, "tax_percent", "tax_percent", "amount"),
                   Assign(t, "tax_amount", "tax_amount", "amount"),
                   Assign(t, "tax_type", "tax_type", "clean")>>, env)

\* the shipping block of the pricing section
canonicalize_shipping(taxed, env) ==
    IF taxed.raised \/ ~HasDictAt(taxed, <<"pricing_summary">>, "shipping") THEN taxed
    ELSE RunAssigns(taxed,
             <<Assign(<<"pricing_summary", "shipping">>, "shipping_amount",
                      "shipping_amount", "amount")>>, env)

canonicalize_pricing(st, env) ==
    IF st.raised \/ ~Has(st.doc, "pricing_summary") THEN st
    ELSE LET p == <<"pricing_summary">>
         IN  The({canonicalize_shipping(taxed, env) :
                     taxed \in {canonicalize_tax(amounts, env) :
                         amounts \in {RunAssigns(st,
                             <<Assign(p, "subtotal", "subtotal", "amount"),
                               Assign(p, "total_amount", "total_amount", "amount"),
                               Assign(p, "total_discount", "total_discount", "amount"),
                               Assign(p, "currency", "currency", "currency")>>, env)}}})

canonicalize_payment(st, env) ==
    IF st.raised \/ ~Has(st.doc, "payment_info") THEN st
    ELSE LET y == <<"payment_info">>
         IN  RunAssigns(st, <<Assign(y, "payment_terms", "payment_terms", "clean"),
                              Assign(y, "bank_account", "bank_account", "clean"),
                              Assign(y, "po_reference", "po_reference", "clean")>>, env)

\* the document after the try body, whether it completed or raised
canonicalize_invoice(invoice_data, env) ==
    The({canonicalize_payment(pricing_done, env).doc :
            pricing_done \in {canonicalize_pricing(items_done, env) :
                items_done \in {canonicalize_items(vendor_done, env) :
                    vendor_done \in {canonicalize_vendor_info(meta_done, env) :
                        meta_done \in {canonicalize_metadata(
                            [doc |-> invoice_data, raised |-> FALSE], env)}}}}})

\* the except branch of canonicalize_invoice was taken
canonicalize_invoice_failed(invoice_data, env) ==
    The({canonicalize_payment(pricing_done, env).raised :
            pricing_done \in {canonicalize_pricing(items_done, env) :
                items_done \in {canonicalize_items(vendor_done, env) :
                    vendor_done \in {canonicalize_vendor_info(meta_done, env) :
                        meta_done \in {canonicalize_metadata(
                            [doc |-> invoice_data, raised |-> FALSE], env)}}}}})

----------------------------------------------------------------------------
(* POST /api/extract.  The request and everything the handler obtains from   *)
(* its collaborators (image-quality check, extraction service, uuid, clock,  *)
(* whether the invoice model was initialised at start-up) form its input.    *)

MAX_FILE_SIZE == 10485760

Response(code, body) == [t |-> "response", code |-> code, body |-> body]

\* str(e) of a caught exception
ExceptionText == "str(e)"

\* data.get("email") or data.get("userId"), or Raise when the bearer token is
\* not the JSON text of an object
token_user_id(token) ==
    IF ~IsDict(token) THEN Raise
    ELSE IF Truthy(Get(token, "email")) THEN Get(token, "email")
    ELSE Get(token, "userId")

\* os.path.splitext(filename)[1].lower() == '.pdf'
is_pdf(filename) ==
    /\ Len(filename) >= 5
    /\ lower(SubSeq(filename, Len(filename) - 3, Len(filename))) = <<".", "p", "d", "f">>

required_keys == <<"invoice_metadata", "items", "pricing_summary", "payment_info">>

\* validate_response_structure: None when the structure is accepted, else the
\* error message
validate_response_structure(data) ==
    LET missing == {i \in 1..Len(required_keys) : ~Has(data, required_keys[i])}
    IN  IF missing # {}
        THEN "Missing required key: "
                 \o required_keys[CHOOSE i \in missing : \A j \in missing : i <= j]
        ELSE IF ~IsList(Get(data, "items")) THEN "Items must be a list"
        ELSE "ok"

\* confidence_scores.get('status', 'needs_review')
status_from(confidence_scores) ==
    IF "status" \in DOMAIN confidence_scores THEN confidence_scores.status
    ELSE "needs_review"

\* what lines 114-116 make of the canonical document, or Raise when
\* validate_invoice raises; status is the status assigned on line 116
Processed(canonical_data, validation, confidence_scores, status) ==
    IF IsRaise(validation) THEN Raise
    ELSE [t |-> "processed",
          canonical_data |-> canonical_data,
          validation |-> validation,
          confidence_scores |-> confidence_scores,
          status |-> status]

\* mutant of process_extraction: a document that fails validation is never
\* given more than needs_review
process_extraction_gated(extracted_data, env) ==
    The({Processed(canonical_data,
                   validate_invoice(canonical_data),
                   calculate_confidence(canonical_data),
                   IF IsRaise(validate_invoice(canonical_data)) THEN "error"
                   ELSE IF validate_invoice(canonical_data).valid
                   THEN status_from(calculate_confidence(canonical_data))
                   ELSE "needs_review") :
            canonical_data \in {canonicalize_invoice(extracted_data, env)}})

\* canonicalize, validate, score and assign the status: lines 113-116
process_extraction(extracted_data, env) ==
    The({Processed(canonical_data,
                   validate_invoice(canonical_data),
                   calculate_confidence(canonical_data),
                   status_from(calculate_confidence(canonical_data))) :
            canonical_data \in {canonicalize_invoice(extracted_data, env)}})

\* the answer of the handler once the document is processed: lines 118-152
respond(req, user_id, done) ==
    IF IsRaise(done) THEN Response(500, [success |-> FALSE, error |-> ExceptionText])
    \* save_extraction takes no user_id keyword: the call raises TypeError
    \* before anything is stored
    ELSE IF req.invoice_model
    THEN Response(500, [success |-> FALSE, error |-> ExceptionText])
    ELSE Response(200,
             [success |-> TRUE,
              invoice_id |-> req.uuid,
              user_id |-> user_id,
              extracted_data |-> done.canonical_data,
              canonical_data |-> done.canonical_data,
              confidence |-> done.confidence_scores,
              status |-> done.status,
              valid |-> done.validation.valid,
              error |-> done.validation.error,
              usage_stats |-> req.extraction.usage,
              timestamp |-> req.now])

\* the try block of the handler: lines 99-152
extract_and_store(req, user_id) ==
    LET raw_response == req.extraction
    IN  IF IsRaise(raw_response)
        THEN Response(500, [success |-> FALSE, error |-> ExceptionText])
        ELSE IF raw_response.t = "error"
        THEN Response(500, [success |-> FALSE, error |-> raw_response.error])
        ELSE LET extracted_data == raw_response.doc
                 structure == validate_response_structure(extracted_data)
                 env == [hex8 |-> req.hex8, now |-> req.now]
             IN  IF structure # "ok"
                 THEN Response(500, [success |-> FALSE,
                                     error |-> "Structure: " \o structure])
                 ELSE The({respond(req, user_id, done) :
                              done \in {process_extraction(extracted_data, env)}})

extract_invoice(req) ==
    LET user_id == token_user_id(req.token)
        file == req.file
    IN  IF IsRaise(user_id) THEN Response(401, [error |-> "Invalid token format"])
        ELSE IF Falsy(user_id)
        THEN Response(401, [error |-> "Token missing email or userId"])
        ELSE IF file.t = "absent" THEN Response(400, [error |-> "No file provided"])
        ELSE IF file.filename = <<>> THEN Response(400, [error |-> "No file selected"])
        ELSE IF file.length > MAX_FILE_SIZE
        THEN Response(413, [error |-> "File too large (" \o ToString(file.length)
                                          \o " bytes)"])
        ELSE IF ~is_pdf(file.filename) /\ req.is_bad
        THEN Response(400, [success |-> FALSE, error |-> "Quality Check Failed"])
        ELSE extract_and_store(req, user_id)

----------------------------------------------------------------------------
(* Input documents.  A section is a dict, None (JSON null) or Absent; the    *)
(* grid varies every field the scorer and the validator read, and the        *)
(* variants replace one part of a base document by a malformed value.        *)

MaxItems == 2
LongNameLen == 50

txt_AB == Str(<<"A", "B">>)
txt_AcmeCorp == Str(<<"A", "c", "m", "e", " ", "C", "o", "r", "p">>)
txt_AcmeLong == Str(<<"A", "c", "m", "e", " ", "I", "n", "d", "u", "s", "t", "r", "i", "e", "s", " ", "P", "v", "t", " ", "L", "t", "d", " ", "C", "o", "r", "p">>)
txt_Padded == Str(<<"A", "c", "m", "e", " ", "I", "n", "c", " ">> \o Rep("x", LongNameLen))
txt_12 == Str(<<"1", "2">>)
txt_abc == Str(<<"a", "b", "c">>)
txt_INV1 == Str(<<"I", "N", "V", "-", "1">>)
txt_x == Str(<<"x">>)
txt_blank == Str(<<" ", " ">>)
txt_empty == Str(<<>>)
txt_DateIso == Str(<<"2", "0", "2", "5", "-", "1", "2", "-", "2", "9">>)
txt_DateBad == Str(<<"2", "0", "2", "5", "-", "1", "3", "-", "4", "5">>)
txt_TimeIso == Str(<<"1", "4", ":", "3", "0", ":", "0", "0">>)
txt_TimeBad == Str(<<"2", "5", ":", "6", "1", ":", "6", "1">>)

Meta(c, n, d, tm) ==
    Dict([company_name |-> c, invoice_number |-> n, date |-> d, time |-> tm])

Vendor(n) == Dict([vendor_name |-> n])

Item(n, q, u, l, d) ==
    Dict([item_name |-> n, quantity |-> q, unit_price |-> u, line_total |-> l,
          discount |-> d])

Discount(h, a, d) ==
    Dict([has_discount |-> h, actual_price |-> a, discounted_price |-> d])

Tax(h, a, p) == Dict([has_tax |-> h, tax_amount |-> a, tax_percent |-> p])

Pricing(s, tot, tx) == Dict([subtotal |-> s, total_amount |-> tot, tax |-> tx])

Doc(m, v, i, p) ==
    Dict([invoice_metadata |-> m, vendor_info |-> v, items |-> i,
          pricing_summary |-> p])

item_full == Item(txt_x, Float(2000), Float(5000), Float(10000), Absent)
item_bonus ==
    Item(txt_x, Float(2000), Float(5000), Float(9000),
         Discount(Bool(TRUE), Float(5000), Float(4500)))
item_no_total == Item(txt_x, Float(2000), Float(5000), None, Absent)
item_nameless == Item(None, Float(2000), Float(5000), Float(10000), Absent)
item_null_discount == Item(txt_x, Float(2000), Float(5000), Float(10000), None)
item_text_qty == Item(txt_x, txt_12, Float(5000), Float(10000), Absent)

ItemKinds == {item_full, item_bonus, item_no_total}

\* all lists of at most n items of the given kinds
ItemLists(kinds, n) == UNION {[1..k -> kinds] : k \in 0..n}

tax_full == Tax(Bool(TRUE), Float(1800), Float(18000))
tax_partial == Tax(Bool(TRUE), None, None)
tax_none == Tax(Bool(FALSE), None, None)

GridMetas ==
    {Meta(c, n, d, tm) :
        c \in {None, txt_AB, txt_AcmeLong},
        n \in {None, txt_INV1},
        d \in {None, txt_DateIso, txt_DateBad, txt_x},
        tm \in {None, txt_TimeBad, txt_x}}

GridVendors == {Vendor(n) : n \in {None, txt_AB, txt_AcmeCorp}}

GridPricings ==
    {None,
     Pricing(None, Float(10000), Absent),
     Pricing(Float(10000), Float(11800), Absent),
     Pricing(Float(10000), Float(11800), tax_full),
     Pricing(Float(10000), Float(11800), tax_partial)}

GridDocs ==
    {Doc(m, v, List(i), p) :
        m \in GridMetas, v \in GridVendors,
        i \in ItemLists(ItemKinds, MaxItems), p \in GridPricings}

base_meta == Meta(txt_AcmeCorp, txt_INV1, txt_DateIso, txt_TimeIso)
base_vendor == Vendor(txt_AcmeCorp)
base_items == List(<<item_full>>)
base_pricing == Pricing(Float(10000), Float(11800), tax_full)

VariantMetas ==
    {None, Absent, List(<<>>)}
    \cup {Meta(c, txt_INV1, txt_DateIso, txt_TimeIso) :
            c \in {txt_empty, txt_blank, txt_x, txt_Padded, IntV(7), IntV(0)}}
    \cup {Meta(txt_AcmeCorp, n, txt_DateIso, txt_TimeIso) :
            n \in {txt_abc, txt_12, IntV(12345), txt_empty}}
    \cup {Meta(txt_AcmeCorp, txt_INV1, d, txt_TimeIso) :
            d \in {IntV(20251229), txt_empty, Str(txt_DateIso.v \o <<"\n">>)}}
    \cup {Meta(txt_AcmeCorp, txt_INV1, txt_DateIso, tm) :
            tm \in {IntV(1430), txt_empty, txt_TimeIso}}

VariantVendors ==
    {None, Absent} \cup {Vendor(n) : n \in {txt_12, txt_blank, txt_Padded, IntV(7)}}

VariantItems ==
    {None, Absent, txt_x,
     List(<<item_null_discount>>), List(<<item_full, item_null_discount>>),
     List(<<txt_x>>), List(<<None>>), List(<<item_text_qty>>),
     List(<<item_nameless>>), List(<<item_full, item_nameless>>),
     List(<<Item(txt_x, Float(2000), Float(5000), Float(10000), txt_x)>>),
     List(<<Item(txt_x, Float(2000), Float(5000), Float(10000),
                 Discount(Bool(TRUE), Float(5000), None))>>)}

VariantPricings ==
    {Absent, txt_x,
     Pricing(Float(10000), None, tax_full),
     Pricing(Float(10000), None, Absent),
     Pricing(None, None, tax_full),
     Pricing(None, None, None),
     Pricing(Float(10000), Float(11800), None),
     Pricing(Float(10000), Float(11800), tax_none),
     Pricing(txt_12, Float(11800), tax_full),
     Pricing(Float(10000), txt_12, tax_full)}

VariantDocs ==
    {Doc(m, base_vendor, base_items, base_pricing) : m \in VariantMetas}
    \cup {Doc(base_meta, v, base_items, base_pricing) : v \in VariantVendors}
    \cup {Doc(base_meta, base_vendor, i, base_pricing) : i \in VariantItems}
    \cup {Doc(base_meta, base_vendor, base_items, p) : p \in VariantPricings}
    \cup {Doc(Meta(txt_Padded, txt_INV1, txt_DateIso, None), Vendor(txt_Padded), i,
              base_pricing) : i \in {List(<<>>), base_items}}
    \cup {Doc(None, base_vendor, List(<<>>), base_pricing)}

Docs == GridDocs \cup VariantDocs

----------------------------------------------------------------------------
(* calculate_confidence applied to one document *)

InitScore ==
    /\ call \in {[fn |-> "calculate_confidence", arg |-> d] : d \in Docs}
    /\ ret = Pending
    /\ db = EmptyDb

CalculateConfidence ==
    /\ call.fn = "calculate_confidence"
    /\ ret = Pending
    /\ ret' = calculate_confidence(call.arg)
    /\ UNCHANGED <<call, db>>

NextScore == CalculateConfidence

SpecScore == InitScore /\ [][NextScore]_vars

Scored == call.fn = "calculate_confidence" /\ ret # Pending

----------------------------------------------------------------------------
(* validate_invoice applied to one document *)

InitValidate ==
    /\ call \in {[fn |-> "validate_invoice", arg |-> d] : d \in Docs}
    /\ ret = Pending
    /\ db = EmptyDb

ValidateInvoice ==
    /\ call.fn = "validate_invoice"
    /\ ret = Pending
    /\ ret' = validate_invoice(call.arg)
    /\ UNCHANGED <<call, db>>

NextValidate == ValidateInvoice

SpecValidate == InitValidate /\ [][NextValidate]_vars

Validated == call.fn = "validate_invoice" /\ ret # Pending

----------------------------------------------------------------------------
(* Properties of calculate_confidence (checked under SpecScore) *)

Genuine == {"auto_approved", "needs_review", "low_confidence"}

ArgSection(k) == Get(call.arg, k)

\* the unrounded field scores of the scored document
ArgScores == field_scores(call.arg).v

\* C2: every per-field score returned in field_confidence lies in 0..100
\* (scores are held in hundredths, so 100 is 10000).
C2_FieldScoresInRange ==
    Scored =>
        \A f \in DOMAIN ret.field_confidence :
            0 <= ret.field_confidence[f] /\ ret.field_confidence[f] <= 10000

\* sum(score * weight) / sum(weight) capped at 100, with the six table weights
\* and the given weight for pricing
WeightedMean(fs, pricing_weight) ==
    LET num == RAdd(RAdd(RAdd(RMul(fs.company_name, RInt(10)),
                              RMul(fs.invoice_number, RInt(8))),
                         RAdd(RMul(fs.date, RInt(12)), RMul(fs.time, RInt(3)))),
                    RAdd(RAdd(RMul(fs.vendor_name, RInt(10)), RMul(fs.items, RInt(25))),
                         RMul(fs.pricing, RInt(pricing_weight))))
    IN  RMin(RDiv(num, RInt(10 + 8 + 12 + 3 + 10 + 25 + pricing_weight)), RInt(100))

\* C3 as stated: the overall confidence is the weighted mean of the seven field
\* scores with pricing weighted 26 (tax 12 + total 14), capped at 100.
C3_WeightsAsClaimed ==
    (Scored /\ ret.status # "error") =>
        ret.overall_confidence = Round2(WeightedMean(ArgScores, 26))

\* C3 amended: the overall confidence is the weighted mean of the seven field
\* scores with weights 10, 8, 12, 3, 10, 25 and, for pricing, the default
\* weight 10 of a field that is not in the table (sum 78), capped at 100.
C3_WeightedMean ==
    (Scored /\ ret.status # "error") =>
        ret.overall_confidence = Round2(WeightedMean(ArgScores, 10))

\* a scored document on which the two weightings give different results
C3_Witness ==
    /\ Scored
    /\ ret.status # "error"
    /\ ret.overall_confidence = Round2(WeightedMean(ArgScores, 10))
    /\ ret.overall_confidence # Round2(WeightedMean(ArgScores, 26))
    /\ ret.field_confidence.pricing = 7000

\* C4: in every non-error result the status agrees with the overall_confidence
\* returned in that result: auto_approved iff it is >= 85, needs_review iff it
\* is in [60, 85), low_confidence iff it is < 60.
C4_StatusAgreesWithReturned ==
    (Scored /\ ret.status # "error") =>
        /\ ret.status = "auto_approved" <=> ret.overall_confidence >= 8500
        /\ ret.status = "needs_review" <=>
               (6000 <= ret.overall_confidence /\ ret.overall_confidence < 8500)
        /\ ret.status = "low_confidence" <=> ret.overall_confidence < 6000

\* every item of the list is a mapping with the four required fields present
ItemsFullyPopulated(items) ==
    /\ IsList(items)
    /\ Len(items.v) > 0
    /\ \A i \in 1..Len(items.v) :
           /\ IsDict(items.v[i])
           /\ \A j \in 1..Len(required_fields) :
                  Get(items.v[i], required_fields[j]).t # "none"

C5_Case ==
    /\ Scored
    /\ validate_invoice(call.arg) = Valid
    /\ ItemsFullyPopulated(ArgSection("items"))

NotText(x) == Truthy(x) /\ ~IsStr(x)

\* a step of the try body fails on this document
ScoringFails(doc) ==
    LET meta == GetD(doc, "invoice_metadata", EmptyDictV)
        vendor == GetD(doc, "vendor_info", EmptyDictV)
        items == GetD(doc, "items", List(<<>>))
    IN  \/ ~IsDict(meta)
        \/ ~IsDict(vendor)
        \/ IsDict(meta) /\ \E k \in {"company_name", "date", "time"} : NotText(Get(meta, k))
        \/ IsDict(vendor) /\ NotText(Get(vendor, "vendor_name"))
        \/ /\ IsList(items)
           /\ \E i \in 1..Len(items.v) :
                  \/ ~IsDict(items.v[i])
                  \/ Has(items.v[i], "discount") /\ ~IsDict(items.v[i].v.discount)

\* C7: calculate_confidence always returns a result; when a step of scoring
\* fails internally the result is overall 0, empty field map, level and status
\* 'error', and otherwise the status is a genuine one.
C7_FailSafe ==
    Scored =>
        /\ ret.t = "ret"
        /\ ScoringFails(call.arg) => ret = ErrorResult
        /\ ~ScoringFails(call.arg) => ret.status \in Genuine

\* a document with a null invoice_metadata section that got the error result
C7_Witness ==
    /\ Scored
    /\ ArgSection("invoice_metadata") = None
    /\ ret.t = "ret"
    /\ ret.overall_confidence = 0
    /\ ret.field_confidence = <<>>
    /\ ret.confidence_level = "error"
    /\ ret.status = "error"

----------------------------------------------------------------------------
(* Properties of validate_invoice (checked under SpecValidate) *)

\* the sections and fields the five checks read have the types a canonical
\* invoice gives them: metadata a mapping (or absent), its texts text or none
CanonicalShape(doc) ==
    LET meta == GetD(doc, "invoice_metadata", EmptyDictV)
    IN  /\ IsDict(meta)
        /\ \A k \in {"company_name", "date", "time"} : Get(meta, k).t \in {"str", "none"}

\* the five checks in their fixed order, each with the section that prefixes it
FiveChecks(doc) ==
    LET meta == GetD(doc, "invoice_metadata", EmptyDictV)
    IN  <<[section |-> "Metadata", r |-> validate_company_name(Get(meta, "company_name"))],
          [section |-> "Metadata", r |-> validate_date(Get(meta, "date"))],
          [section |-> "Metadata", r |-> validate_time(Get(meta, "time"))],
          [section |-> "Items", r |-> validate_items(Get(doc, "items"))],
          [section |-> "Pricing", r |-> validate_pricing(Get(doc, "pricing_summary"))]>>

PricingMessages ==
    {"Pricing: Pricing summary is required", "Pricing: Subtotal is required",
     "Pricing: Subtotal must be numeric", "Pricing: Total amount is required",
     "Pricing: Total amount must be numeric"}

MissingTotal(doc) ==
    LET p == Get(doc, "pricing_summary")
    IN  IsDict(p) /\ Get(p, "total_amount").t = "none"

\* C8: validate_invoice returns (true, none) exactly when all five checks pass,
\* and otherwise only the message of the earliest failing check in the order
\* company name, date, time, items, pricing, prefixed with its section; a
\* document missing total_amount is invalid, with a 'Pricing: ...' message
\* when the metadata and items checks pass.
C8_FirstFailure ==
    (Validated /\ CanonicalShape(call.arg)) =>
        LET checks == FiveChecks(call.arg)
            failing == {k \in 1..5 : ~checks[k].r.valid}
        IN  /\ ret.t = "ret"
            /\ ret.valid <=> failing = {}
            /\ ret.valid => ret.error = None
            /\ ~ret.valid =>
                   LET k == CHOOSE i \in failing : \A j \in failing : i <= j
                   IN  ret.error = checks[k].section \o ": " \o checks[k].r.error
            /\ MissingTotal(call.arg) =>
                   /\ ~ret.valid
                   /\ (\A k \in 1..4 : checks[k].r.valid) => ret.error \in PricingMessages

\* a document missing only total_amount, reported with the pricing message
C8_Witness ==
    /\ Validated
    /\ CanonicalShape(call.arg)
    /\ MissingTotal(call.arg)
    /\ ret = Invalid("Pricing: Total amount is required")

----------------------------------------------------------------------------
(* canonicalize_time applied to one value *)

Hours == {<<"2">>, <<"0", "2">>, <<"1", "2">>, <<"1", "4">>, <<"2", "4">>, <<"0">>}
Minutes == {<<"3", "0">>, <<"5">>, <<"6", "0">>}
SecondsParts == {<<>>, <<":", "0", "0">>, <<":", "5">>, <<":", "6", "0">>}
Spaces == {<<>>, <<" ">>}
Markers == {<<"a", "m">>, <<"p", "m">>, <<"A", "M">>, <<"P", "M">>, <<"A", "m">>, <<"P", "m">>, <<"a", "M">>, <<"p", "M">>}

TimeText(h, m, sec, sp, mk) == Str(h \o <<":">> \o m \o sec \o sp \o mk)

TimeInputs ==
    {None, txt_empty, txt_blank, txt_x, IntV(1430), IntV(0)}
    \cup {TimeText(h, m, sec, sp, mk) :
            h \in Hours, m \in Minutes, sec \in SecondsParts, sp \in Spaces,
            mk \in Markers \cup {<<>>}}

InitTime ==
    /\ call \in {[fn |-> "canonicalize_time", arg |-> x] : x \in TimeInputs}
    /\ ret = Pending
    /\ db = EmptyDb

CanonicalizeTime ==
    /\ call.fn = "canonicalize_time"
    /\ ret = Pending
    /\ ret' = canonicalize_time(call.arg)
    /\ UNCHANGED <<call, db>>

NextTime == CanonicalizeTime

SpecTime == InitTime /\ [][NextTime]_vars

TimeDone == call.fn = "canonicalize_time" /\ ret # Pending

\* the 24-hour hour of a 12-hour clock reading with the given marker
Hour24(h, mk) ==
    IF lower(mk) = <<"p", "m">> THEN (IF h = 12 THEN 12 ELSE h + 12)
    ELSE (IF h = 12 THEN 0 ELSE h)

\* C9: 12-hour text carrying an am/pm marker in any letter case is converted to
\* the corresponding 24-hour HH:MM:SS value ('2:30 PM' yields '14:30:00'), and
\* absent input yields none.
C9_TwelveHourTo24 ==
    TimeDone =>
        /\ call.arg = None => ret = None
        /\ \A h \in Hours, m \in Minutes, sec \in SecondsParts, sp \in Spaces, mk \in Markers :
               (/\ call.arg = TimeText(h, m, sec, sp, mk)
                /\ DigitsVal(h) \in 1..12
                /\ DigitsVal(m) <= 59
                /\ sec # <<>> => DigitsVal(Tail(sec)) <= 59)
               => ret = Str(FormatTime(Hour24(DigitsVal(h), mk), DigitsVal(m),
                                       IF sec = <<>> THEN 0 ELSE DigitsVal(Tail(sec))))

----------------------------------------------------------------------------
(* normalize_currency_amount applied to one value *)

MaxAmountLen == 6

AmountAlphabet == {"1", "0", ",", "."}

ExampleAmounts ==
    {Str(<<"$", "1", ",", "5", "0", "0", ".", "0", "0">>),
     Str(<<"1", ".", "5", "0", "0", ",", "0", "0">>),
     Str(<<"1", ",", "5", "0", "0", ".", "0", "0">>),
     Str(<<"₹", "1", "5", ",", "0", "0", "0">>),
     Str(<<"E", "U", "R", " ", "1", "2", "0", "0", ",", "5", "0">>),
     Str(<<"1", "2", ",", "5", "0">>),
     Str(<<"1", ".", "0", "0", "0", ".", "0", "0", "0">>),
     Str(<<"1", ".", "0", "0", "0", ".", "0", "0", "0", ",", "0", "0">>),
     Str(<<"1", ",", "2", "3", "4", ",", "5", "6", "7", ".", "8", "9">>),
     Str(<<"1", ".", "2", "3", "4", ".", "5", "6", "7", ",", "8", "9">>),
     Str(<<"€", " ", "1", ".", "2", "0", "0", ",", "5", "0">>),
     Str(<<"£", "-", "5">>),
     Str(<<"1", "-", "2">>),
     Str(<<"a", "b", "c">>),
     Str(<<>>)}

AmountInputs ==
    {None, IntV(1500), Float(1500500), Float(10005)}
    \cup ExampleAmounts
    \cup {Str(x) : x \in UNION {[1..k -> AmountAlphabet] : k \in 1..MaxAmountLen}}

InitAmount ==
    /\ call \in {[fn |-> "normalize_currency_amount", arg |-> x] : x \in AmountInputs}
    /\ ret = Pending
    /\ db = EmptyDb

NormalizeCurrencyAmount ==
    /\ call.fn = "normalize_currency_amount"
    /\ ret = Pending
    /\ ret' = normalize_currency_amount(call.arg)
    /\ UNCHANGED <<call, db>>

NextAmount == NormalizeCurrencyAmount

SpecAmount == InitAmount /\ [][NextAmount]_vars

AmountDone == call.fn = "normalize_currency_amount" /\ ret # Pending

\* the cleaned text of a textual amount, as the separator rules see it
AmountText == strip_non_amount(strip(call.arg.v))

\* digits grouped by single separators, both kinds present, and the kind
\* that comes last occurring once
GroupedWithBoth(s) ==
    /\ Len(s) > 0 /\ isdigit(s[1]) /\ isdigit(s[Len(s)])
    /\ \A i \in 1..Len(s) : isdigit(s[i]) \/ s[i] \in {",", "."}
    /\ \A i \in 1..(Len(s) - 1) : ~(s[i] \in {",", "."} /\ s[i + 1] \in {",", "."})
    /\ count(s, ",") >= 1 /\ count(s, ".") >= 1
    /\ (IF rindex(s, ",") > rindex(s, ".") THEN count(s, ",") ELSE count(s, ".")) = 1

\* the later separator read as the decimal point, the other kind removed
LaterSeparatorReading(s) ==
    IF rindex(s, ",") > rindex(s, ".")
    THEN replace_char(remove_char(s, "."), ",", ".")
    ELSE remove_char(s, ",")

\* C10: for a textual amount holding both commas and dots, any number of
\* each, the result is the number read with the later separator as the decimal
\* point and every occurrence of the other removed, with the detected currency.
C10_LaterSeparatorIsDecimal ==
    (AmountDone /\ IsStr(call.arg) /\ GroupedWithBoth(AmountText)) =>
        /\ ret.value = Float(10 * parse_float_2dp(LaterSeparatorReading(AmountText)).v)
        /\ ret.currency = detect_currency(strip(call.arg.v))

----------------------------------------------------------------------------
(* POST /api/extract applied to one request *)

txt_AcmeSpaced == Str(<<" ", " ", "A", "c", "m", "e", " ", " ", " ", "C", "o", "r", "p", " ">>)
txt_Time12h == Str(<<"2", ":", "3", "0", " ", "P", "M">>)
txt_rupee == Str(<<"r", "u", "p", "e", "e">>)
txt_user == Str(<<"a", "@", "b", ".", "c">>)
txt_u1 == Str(<<"u", "1">>)
txt_scan_png == <<"s", "c", "a", "n", ".", "p", "n", "g">>
txt_scan_pdf == <<"s", "c", "a", "n", ".", "P", "D", "F">>

RawDoc(m, v, i, p, y) ==
    Dict([invoice_metadata |-> m, vendor_info |-> v, items |-> i,
          pricing_summary |-> p, payment_info |-> y])

Payment(terms) == Dict([payment_terms |-> terms])

item_text_amounts ==
    Item(Str(<<" ", "x", " ">>), Str(<<"2">>), Str(<<"$", "1", ",", "5", "0", "0", ".", "0", "0">>),
         Str(<<"3", ".", "0", "0", "0", ",", "0", "0">>), Absent)

RawMetas ==
    {Meta(c, n, d, tm) :
        c \in {None, txt_AcmeSpaced, txt_Padded},
        n \in {None, txt_INV1},
        d \in {None, txt_DateIso, txt_DateBad},
        tm \in {None, txt_TimeIso, txt_Time12h}}

RawVendors == {Vendor(None), Vendor(txt_AcmeLong)}

RawItems ==
    {List(<<>>), List(<<item_full>>), List(<<item_text_amounts>>),
     List(<<item_nameless>>), List(<<item_bonus, item_full>>)}

RawPricings ==
    {base_pricing,
     Pricing(None, Float(11800), tax_full),
     Pricing(Float(10000), None, tax_partial),
     SetKey(Pricing(Str(<<"1", ",", "0", "0", "0", ".", "0", "0">>), Str(<<"₹", "1", ",", "1", "8", "0", ".", "0", "0">>), tax_full),
            "currency", txt_rupee)}

base_payment == Payment(Str(<<"N", "e", "t", " ", " ", "3", "0">>))

GridRawDocs ==
    {RawDoc(m, v, i, p, base_payment) :
        m \in RawMetas, v \in RawVendors, i \in RawItems, p \in RawPricings}

base_raw == RawDoc(base_meta, base_vendor, base_items, base_pricing, base_payment)

\* documents with a malformed or missing part
VariantRawDocs ==
    {RawDoc(m, base_vendor, base_items, base_pricing, base_payment) :
        m \in {None, Absent,
               Meta(txt_AcmeCorp, txt_INV1, IntV(20251229), txt_TimeIso),
               Meta(txt_AcmeCorp, txt_INV1, txt_DateIso, IntV(1430)),
               Meta(IntV(7), IntV(12345), txt_DateIso, txt_TimeIso)}}
    \cup {RawDoc(base_meta, v, base_items, base_pricing, base_payment) :
            v \in {None, Absent, Vendor(IntV(7)), Vendor(txt_blank)}}
    \cup {RawDoc(base_meta, base_vendor, i, base_pricing, base_payment) :
            i \in {None, Absent, txt_x, List(<<txt_x>>), List(<<item_null_discount>>),
                   List(<<item_full, None>>)}}
    \cup {RawDoc(base_meta, base_vendor, base_items, p, base_payment) :
            p \in {None, Absent, SetKey(base_pricing, "currency", IntV(5)),
                   SetKey(base_pricing, "shipping", Dict([shipping_amount |-> IntV(50)]))}}
    \cup {RawDoc(base_meta, base_vendor, base_items, base_pricing, y) :
            y \in {None, Absent, Payment(None)}}

Usage == [total_tokens |-> 1200]

Extraction(doc) == [t |-> "json", doc |-> doc, usage |-> Usage]

Request(token, file, is_bad, extraction, invoice_model, hex8, uuid, now) ==
    [token |-> token, file |-> file, is_bad |-> is_bad, extraction |-> extraction,
     invoice_model |-> invoice_model, hex8 |-> hex8, uuid |-> uuid, now |-> now]

Token(email, userId) == Dict([email |-> email, userId |-> userId])

File(filename, length) == [t |-> "file", filename |-> filename, length |-> length]

base_token == Token(txt_user, None)
base_file == File(txt_scan_png, 2048)
hex_a == <<"0", "A", "1", "B", "2", "C", "3", "D">>
hex_b == <<"F", "F", "F", "F", "F", "F", "F", "F">>

Tokens ==
    {[t |-> "invalid"], Token(None, None), Token(Str(<<>>), txt_u1),
     Token(txt_user, txt_u1), base_token}

Files ==
    {Absent, File(<<>>, 0), File(txt_scan_png, MAX_FILE_SIZE),
     File(txt_scan_png, MAX_FILE_SIZE + 1), File(txt_scan_pdf, 2048), base_file}

\* every document with a well-formed request and no invoice model, and the
\* other inputs varied around the base document
Requests ==
    {Request(base_token, base_file, FALSE, Extraction(d), FALSE, hex_a, "id-1", IntV(1)) :
        d \in GridRawDocs \cup VariantRawDocs}
    \cup {Request(tk, f, b, Extraction(base_raw), FALSE, hex_a, "id-1", IntV(1)) :
            tk \in Tokens, f \in Files, b \in BOOLEAN}
    \cup {Request(base_token, base_file, FALSE, x, m, hex_a, "id-1", IntV(1)) :
            x \in {Raise, [t |-> "error", error |-> "Invalid JSON response from model"],
                   Extraction(base_raw)},
            m \in BOOLEAN}
    \cup {Request(base_token, base_file, FALSE, Extraction(base_raw), FALSE, h, u, n) :
            h \in {hex_a, hex_b}, u \in {"id-1", "id-2"}, n \in {IntV(1), IntV(2)}}

Init ==
    /\ call \in {[fn |-> "extract_invoice", arg |-> r] : r \in Requests}
    /\ ret = Pending
    /\ db = EmptyDb

ExtractInvoice ==
    /\ call.fn = "extract_invoice"
    /\ ret = Pending
    /\ ret' = extract_invoice(call.arg)
    /\ UNCHANGED <<call, db>>

Next == ExtractInvoice

Spec == Init /\ [][Next]_vars

Extracted == call.fn = "extract_invoice" /\ ret # Pending

Answered200 == Extracted /\ ret.code = 200

\* C1: the status the /extract pipeline assigns is the status the scorer
\* returns for the canonical document, whether validate_invoice found the
\* document valid or not.
C1_StatusIsScorerStatus ==
    Answered200 =>
        /\ ret.body.status = calculate_confidence(ret.body.canonical_data).status
        /\ ret.body.status = ret.body.confidence.status
        /\ ret.body.valid = validate_invoice(ret.body.canonical_data).valid

\* C1 witness: a document is auto-approved although validate_invoice rejects it
C1_Witness ==
    /\ Answered200
    /\ ret.body.status = "auto_approved"
    /\ ret.body.valid = FALSE

----------------------------------------------------------------------------
(* Properties of normalize_currency_amount (checked under SpecAmount) *)

\* digits around one comma, no dot
OneCommaNoDot(s) ==
    /\ Len(s) >= 3 /\ isdigit(s[1]) /\ isdigit(s[Len(s)])
    /\ \A i \in 1..Len(s) : isdigit(s[i]) \/ s[i] = ","
    /\ count(s, ",") = 1

\* the comma is followed by exactly two digits that end the text
TwoDigitsAfterComma(s) == rindex(s, ",") = Len(s) - 2

\* C11: for a textual amount with a comma and no dot, the comma is the decimal
\* separator exactly when exactly two digits follow it at the end of the text,
\* whatever the number of digits before it; otherwise it is removed as
\* thousands grouping.
C11_CommaOnly ==
    (AmountDone /\ IsStr(call.arg) /\ OneCommaNoDot(AmountText)) =>
        ret.value = Float(10 * parse_float_2dp(
                        IF TwoDigitsAfterComma(AmountText)
                        THEN replace_char(AmountText, ",", ".")
                        ELSE remove_char(AmountText, ",")).v)

\* digits in groups of three after each dot, more than one dot, and at most
\* one comma, which then comes after the last group
DotGrouped(s) ==
    /\ Len(s) >= 9 /\ isdigit(s[1]) /\ isdigit(s[Len(s)])
    /\ \A i \in 1..Len(s) : isdigit(s[i]) \/ s[i] \in {",", "."}
    /\ \A i \in 1..(Len(s) - 1) : isdigit(s[i]) \/ isdigit(s[i + 1])
    /\ count(s, ".") > 1
    /\ count(s, ",") <= 1
    /\ \A i \in 1..Len(s) : s[i] = "." =>
          /\ i + 3 <= Len(s)
          /\ \A j \in (i + 1)..(i + 3) : isdigit(s[j])
          /\ i + 3 < Len(s) => s[i + 4] \in {",", "."}

\* C12: for a textual amount with more than one dot, all dots are removed as
\* thousands grouping and a comma becomes the decimal separator, so that
\* '1.000.000' and '1.000.000,00' both give 1000000.00.
C12_DotsAreGrouping ==
    (AmountDone /\ IsStr(call.arg) /\ DotGrouped(AmountText)) =>
        ret.value = Float(10 * parse_float_2dp(
                        replace_char(remove_char(AmountText, "."), ",", ".")).v)

----------------------------------------------------------------------------
(* canonicalize_currency_code on its own *)

TableKeys == {CURRENCY_MAPPINGS[i].key : i \in 1..Len(CURRENCY_MAPPINGS)}

OtherCurrencyTexts ==
    {<<"x", "y", "z">>,
     <<"S", "e", "k">>,
     <<"a", "b", "1">>,
     <<"a", "b", "c", "d">>,
     <<"1", "2">>,
     <<"r", "u", "p", "e", "e", "s">>,
     <<"U", "S", " ", "D", "o", "l", "l", "a", "r">>,
     <<"S", "w", "i", "s", "s", " ", "f", "r", "a", "n", "c", "s">>,
     <<"b", "i", "t", "c", "o", "i", "n">>,
     <<" ", " ">>}

\* every table key as written, in upper case and padded with spaces, other
\* texts, and absent, empty and non-text values
CurrencyInputs ==
    {None, Str(<<>>), IntV(5)}
    \cup {Str(k) : k \in TableKeys}
    \cup {Str(upper(k)) : k \in TableKeys}
    \cup {Str(<<" ">> \o k \o <<" ">>) : k \in TableKeys}
    \cup {Str(x) : x \in OtherCurrencyTexts}

InitCurrency ==
    /\ call \in {[fn |-> "canonicalize_currency_code", arg |-> x] : x \in CurrencyInputs}
    /\ ret = Pending
    /\ db = EmptyDb

CanonicalizeCurrencyCode ==
    /\ call.fn = "canonicalize_currency_code"
    /\ ret = Pending
    /\ ret' = canonicalize_currency_code(call.arg)
    /\ UNCHANGED <<call, db>>

NextCurrency == CanonicalizeCurrencyCode

SpecCurrency == InitCurrency /\ [][NextCurrency]_vars

CurrencyDone == call.fn = "canonicalize_currency_code" /\ ret # Pending

\* the code the table gives for one of its keys
TableCode(k) ==
    CURRENCY_MAPPINGS[CHOOSE i \in 1..Len(CURRENCY_MAPPINGS) : CURRENCY_MAPPINGS[i].key = k].value

ThreeLetters(s) == Len(s) = 3 /\ \A i \in 1..3 : isalpha(s[i])

\* a text that is no 3-letter code and contains no key of the table
Unmatched(s) ==
    /\ ~ThreeLetters(strip(s))
    /\ \A k \in TableKeys : ~Contains(lower(s), k)

\* C13: canonicalize_currency_code maps every key of the fixed table to its
\* code, passes any other 3-letter alphabetic code through in upper case, and
\* returns USD for unmatched or absent input.
C13_TableLookup ==
    CurrencyDone =>
        /\ (IsStr(call.arg) /\ call.arg.v \in TableKeys) => ret = TableCode(call.arg.v)
        /\ (IsStr(call.arg) /\ call.arg.v \notin TableKeys /\ ThreeLetters(call.arg.v))
              => ret = Str(upper(call.arg.v))
        /\ (call.arg = None \/ (IsStr(call.arg) /\ Unmatched(call.arg.v))) => ret = code_USD

----------------------------------------------------------------------------
(* canonicalize_invoice on its own, applied to a raw document and then once  *)
(* more to its own output; uuid4 and the clock are drawn anew by every call  *)

txt_USD == Str(<<"U", "S", "D">>)
txt_inr == Str(<<"i", "n", "r">>)

\* pricing sections whose total_amount text carries a currency symbol
SymbolPricings ==
    {SetKey(Pricing(Float(10000), Str(<<"₹", "1", "5", ",", "0", "0", "0">>), tax_full), "currency", txt_USD),
     SetKey(Pricing(Float(10000), Str(<<"€", " ", "1", ".", "2", "0", "0", ",", "5", "0">>), tax_full), "currency", txt_inr),
     SetKey(Pricing(Float(10000), Str(<<"£", "1", ",", "5", "0", "0", ".", "0", "0">>), tax_full), "currency", None),
     Pricing(Float(10000), Str(<<"$", "1", ",", "5", "0", "0", ".", "0", "0">>), tax_full)}

CanonMetas ==
    {base_meta, Meta(txt_AcmeSpaced, txt_INV1, None, None),
     Meta(None, None, txt_DateBad, txt_Time12h)}

\* an item whose quantity has three decimals and whose discount carries its
\* discounted_price as text
item_fine ==
    Item(txt_x, Float(1005), Float(5000), Float(10000),
         Discount(Bool(TRUE), Float(5000), Str(<<"$", "4", ".", "5", "0">>)))

\* documents whose numeric amounts have more than two decimals
PrecisionDocs ==
    {RawDoc(base_meta, base_vendor, i, p, base_payment) :
        i \in {base_items, List(<<item_fine>>)},
        p \in {base_pricing,
               Pricing(Float(10005), Float(11800), tax_full),
               Pricing(Float(10000), Float(11800), Tax(Bool(TRUE), Float(1800), Float(18125))),
               SetKey(base_pricing, "shipping", Dict([shipping_amount |-> Float(49999)]))}}

CanonDocs ==
    {RawDoc(m, v, i, p, base_payment) :
        m \in CanonMetas, v \in RawVendors,
        i \in {List(<<item_text_amounts>>), List(<<item_bonus, item_full>>)},
        p \in RawPricings \cup SymbolPricings}
    \cup VariantRawDocs
    \cup PrecisionDocs

\* what uuid.uuid4().hex[:8].upper() and datetime.now() can give a call
Environments == {[hex8 |-> h, now |-> n] : h \in {hex_a, hex_b}, n \in {IntV(1), IntV(2)}}

Canonical(doc, again) == [t |-> "canonical", doc |-> doc, again |-> again]

InitCanon ==
    /\ call \in {[fn |-> "canonicalize_invoice", arg |-> d] : d \in CanonDocs}
    /\ ret = Pending
    /\ db = EmptyDb

CanonicalizeInvoice ==
    /\ call.fn = "canonicalize_invoice"
    /\ ret = Pending
    /\ \E env \in Environments :
          ret' = Canonical(canonicalize_invoice(call.arg, env), Pending)
    /\ UNCHANGED <<call, db>>

\* the output of the first call is canonicalized again
CanonicalizeAgain ==
    /\ call.fn = "canonicalize_invoice"
    /\ ret # Pending
    /\ ret.again = Pending
    /\ \E env \in Environments :
          ret' = Canonical(ret.doc, canonicalize_invoice(ret.doc, env))
    /\ UNCHANGED <<call, db>>

NextCanon == CanonicalizeInvoice \/ CanonicalizeAgain

SpecCanon == InitCanon /\ [][NextCanon]_vars

Canonicalized == call.fn = "canonicalize_invoice" /\ ret # Pending

Recanonicalized == Canonicalized /\ ret.again # Pending

\* the raw pricing_summary is a dict whose total_amount is a text with one of
\* the currency symbols
SymbolInTotal ==
    LET pricing == Get(call.arg, "pricing_summary")
    IN  /\ IsDict(pricing)
        /\ IsStr(Get(pricing, "total_amount"))
        /\ detect_currency(Get(pricing, "total_amount").v) # None

\* C14: when the total_amount text of the pricing_summary contains a currency
\* symbol, the canonical pricing_summary.currency is the currency of that
\* symbol, whatever the textual currency field says.
C14_SymbolOverridesCurrency ==
    (Canonicalized /\ SymbolInTotal) =>
        Get(Get(ret.doc, "pricing_summary"), "currency")
            = detect_currency(Get(Get(call.arg, "pricing_summary"), "total_amount").v)

\* doc with the listed fields of vendor_info.vendor_name_canonical blanked
WithoutVendorFields(doc, fields) ==
    IF ~IsDict(doc) \/ ~Has(doc, "vendor_info") \/ ~IsDict(doc.v["vendor_info"])
       \/ ~Has(doc.v["vendor_info"], "vendor_name_canonical")
       \/ ~IsDict(doc.v["vendor_info"].v["vendor_name_canonical"])
    THEN doc
    ELSE LET identity == doc.v["vendor_info"].v["vendor_name_canonical"]
         IN  SetPath(doc, <<"vendor_info">>, "vendor_name_canonical",
                     Dict([k \in DOMAIN identity.v |->
                              IF k \in fields THEN None ELSE identity.v[k]]))

\* C15 as stated: canonicalizing the output of canonicalize_invoice again
\* reproduces every field identically, with the single exception of the
\* vendor canonical_id.
C15_IdempotentButCanonicalId ==
    Recanonicalized =>
        WithoutVendorFields(ret.again, {"canonical_id"})
            = WithoutVendorFields(ret.doc, {"canonical_id"})

\* C15 amended: canonicalizing the output of canonicalize_invoice again
\* reproduces every field identically, except the vendor canonical_id and the
\* vendor first_seen timestamp, which every call generates anew.
C15_IdempotentButIdentity ==
    Recanonicalized =>
        WithoutVendorFields(ret.again, {"canonical_id", "first_seen"})
            = WithoutVendorFields(ret.doc, {"canonical_id", "first_seen"})

\* C15 witness: a raw document that the first call rewrote, canonicalized
\* again with another id and another clock reading
C15_Witness ==
    /\ Recanonicalized
    /\ ret.doc # call.arg
    /\ ret.again # ret.doc
    /\ Has(Get(ret.doc, "vendor_info"), "vendor_name_canonical")
    /\ GetPath(ret.again, <<"vendor_info", "vendor_name_canonical", "first_seen">>)
          # GetPath(ret.doc, <<"vendor_info", "vendor_name_canonical", "first_seen">>)

Sections == {"invoice_metadata", "vendor_info", "items", "pricing_summary", "payment_info"}

\* the document that holds only section s of doc
OnlySection(doc, s) == Dict([k \in Sections |-> IF k = s THEN doc.v[k] ELSE Absent])

\* C18: canonicalize_invoice visits the five sections independently: the
\* canonical content of a section depends only on that section's own raw
\* content, so it is what canonicalizing the section alone gives, whatever the
\* other sections hold (a missing or null one included).
C18_SectionsIndependent ==
    Canonicalized =>
        \A s \in Sections :
            Has(call.arg, s) =>
                \E env \in Environments :
                    Get(ret.doc, s) = Get(canonicalize_invoice(OnlySection(call.arg, s), env), s)

\* C19: validate_invoice never raises to its caller: for every document,
\* including one with a null section or a wrongly typed field (a numeric
\* company_name or date), it returns a (valid, error) result.
C19_ValidateReturns ==
    Validated => (~IsRaise(ret) /\ ret.valid \in BOOLEAN)

----------------------------------------------------------------------------
(* canonicalize_vendor_name called twice, on a pair of names; uuid4 and the  *)
(* clock are drawn anew by every call                                        *)

txt_ABC_Corporation == <<"A", "B", "C", " ", "C", "o", "r", "p", "o", "r", "a", "t", "i", "o", "n">>
txt_abc_corporation == <<"a", "b", "c", " ", "c", "o", "r", "p", "o", "r", "a", "t", "i", "o", "n">>
txt_ABC_Corp == <<"A", "B", "C", " ", "C", "o", "r", "p", ".">>

VendorNames ==
    {<<"A", "c", "m", "e">>,
     <<"A", "B", "C", " ", "C", "o", "r", "p", "o", "r", "a", "t", "i", "o", "n">>,
     <<"a", "b", "c", " ", "c", "o", "r", "p", "o", "r", "a", "t", "i", "o", "n">>,
     <<"A", "B", "C", " ", "C", "o", "r", "p", ".">>,
     <<"A", "c", "m", "e", " ", "I", "n", "c">>,
     <<"A", ".", "B", ".", "C", ".", " ", "C", "o", "r", "p", "o", "r", "a", "t", "i", "o", "n", " ", "I", "n", "c", ".">>,
     <<"i", "n", "c">>,
     <<"!", "!">>,
     <<" ">>,
     <<"A", "c", "m", "e", " ", " ", "W", "i", "d", "g", "e", "t", "s", "\t", "L", "t", "d">>,
     <<"x", "9">>}

\* the legal-entity tokens a name may carry at its end
SuffixTokens ==
    {<<"i", "n", "c">>, <<"l", "t", "d">>, <<"l", "l", "c">>, <<"c", "o", "r", "p">>,
     <<"c", "o", "m", "p", "a", "n", "y">>, <<"p", "v", "t">>}

\* a name and the same name followed by a space and a suffix token
SuffixPairs ==
    {[first |-> Str(n), second |-> Str(n \o <<" ">> \o token)] :
        n \in VendorNames, token \in SuffixTokens}

\* the name variants of the docstring, and every name paired with itself
VariantPairs ==
    {[first |-> Str(txt_ABC_Corporation), second |-> Str(txt_ABC_Corp)],
     [first |-> Str(txt_abc_corporation), second |-> Str(txt_ABC_Corporation)]}
    \cup {[first |-> Str(n), second |-> Str(n)] : n \in VendorNames}

VendorPairs == SuffixPairs \cup VariantPairs

Identities(first, second) == [t |-> "identities", first |-> first, second |-> second]

InitVendor ==
    /\ call \in {[fn |-> "canonicalize_vendor_name", arg |-> x] : x \in VendorPairs}
    /\ ret = Pending
    /\ db = EmptyDb

CanonicalizeVendorName ==
    /\ call.fn = "canonicalize_vendor_name"
    /\ ret = Pending
    /\ \E env \in Environments :
          ret' = Identities(canonicalize_vendor_name(call.arg.first, env.hex8, env.now), Pending)
    /\ UNCHANGED <<call, db>>

\* the call for the second name of the pair
CanonicalizeVendorNameAgain ==
    /\ call.fn = "canonicalize_vendor_name"
    /\ ret # Pending
    /\ ret.second = Pending
    /\ \E env \in Environments :
          ret' = Identities(ret.first,
                            canonicalize_vendor_name(call.arg.second, env.hex8, env.now))
    /\ UNCHANGED <<call, db>>

NextVendor == CanonicalizeVendorName \/ CanonicalizeVendorNameAgain

SpecVendor == InitVendor /\ [][NextVendor]_vars

BothIdentified == call.fn = "canonicalize_vendor_name" /\ ret # Pending /\ ret.second # Pending

\* the second name is the first followed by a space and a suffix token
SuffixAppended ==
    \E token \in SuffixTokens : call.arg.second.v = call.arg.first.v \o <<" ">> \o token

\* C16 as stated: for every non-empty name N and every suffix token, N and
\* N followed by a space and the token get the same normalized_name.
C16_SuffixIgnoredNonEmpty ==
    (BothIdentified /\ SuffixAppended /\ call.arg.first.v # <<>>) =>
        Get(ret.first, "normalized_name") = Get(ret.second, "normalized_name")

\* C16 amended: for every name N with at least one non-whitespace character
\* and every suffix token, N and N followed by a space and the token get the
\* same normalized_name.
C16_SuffixIgnored ==
    (BothIdentified /\ SuffixAppended /\ strip(call.arg.first.v) # <<>>) =>
        Get(ret.first, "normalized_name") = Get(ret.second, "normalized_name")

\* C16 witness: a name that normalizes to a non-empty text, and the same
\* normalized text for the name with 'pvt' appended
C16_Witness ==
    /\ BothIdentified
    /\ call.arg.second.v = call.arg.first.v \o <<" ", "p", "v", "t">>
    /\ Get(ret.first, "normalized_name").v # <<>>
    /\ Get(ret.first, "normalized_name") = Get(ret.second, "normalized_name")

\* C17: name variants of one vendor get the same canonical ID: 'ABC
\* Corporation' and 'ABC Corp.', 'abc corporation' and 'ABC Corporation', and
\* two calls with the identical name return equal canonical_id values.
C17_SameCanonicalId ==
    (BothIdentified /\ call.arg \in VariantPairs) =>
        Get(ret.first, "canonical_id") = Get(ret.second, "canonical_id")

----------------------------------------------------------------------------
(* canonicalize_date on its own *)

DateText(y, m, d) == IntToStr(y) \o <<"-">> \o TwoDigits(m) \o <<"-">> \o TwoDigits(d)

\* ISO dates with real and impossible days, texts without a date, and absent,
\* empty and non-text values
DateInputs ==
    {Str(DateText(y, m, d)) : y \in {2024, 2025}, m \in 1..12, d \in {1, 28, 29, 30, 31}}
    \cup {None, txt_empty, txt_blank, txt_abc, txt_x, txt_DateBad,
          IntV(20251229), IntV(0), Float(1500), Bool(TRUE), Bool(FALSE),
          List(<<>>), List(<<txt_DateIso>>), Dict([date |-> txt_DateIso])}

InitDate ==
    /\ call \in {[fn |-> "canonicalize_date", arg |-> x] : x \in DateInputs}
    /\ ret = Pending
    /\ db = EmptyDb

CanonicalizeDate ==
    /\ call.fn = "canonicalize_date"
    /\ ret = Pending
    /\ ret' = canonicalize_date(call.arg)
    /\ UNCHANGED <<call, db>>

NextDate == CanonicalizeDate

SpecDate == InitDate /\ [][NextDate]_vars

DateDone == call.fn = "canonicalize_date" /\ ret # Pending

\* C20: canonicalize_date never raises: for every input value, absent, empty,
\* unparseable text or a value of the wrong type (a number), it returns either
\* a YYYY-MM-DD string or none.
C20_DateNeverRaises ==
    DateDone => (ret = None \/ (IsStr(ret) /\ MatchesDatePattern(ret.v)))

----------------------------------------------------------------------------
(* score_invoice_number on its own *)

MaxNumberLen == 5

NumberAlphabet == {"A", "7", "-", " "}

\* absent, empty and numeric values, every text over the alphabet up to
\* MaxNumberLen, and texts around the upper length limit
NumberInputs ==
    {None, txt_empty, IntV(12345), IntV(0), txt_INV1,
     Str(Rep("7", LongNameLen)), Str(<<"A">> \o Rep("7", 19)), Str(<<"A">> \o Rep("7", 20))}
    \cup {Str(x) : x \in UNION {[1..k -> NumberAlphabet] : k \in 1..MaxNumberLen}}

InitNumber ==
    /\ call \in {[fn |-> "score_invoice_number", arg |-> x] : x \in NumberInputs}
    /\ ret = Pending
    /\ db = EmptyDb

ScoreInvoiceNumber ==
    /\ call.fn = "score_invoice_number"
    /\ ret = Pending
    /\ ret' = score_invoice_number(call.arg)
    /\ UNCHANGED <<call, db>>

NextNumber == ScoreInvoiceNumber

SpecNumber == InitNumber /\ [][NextNumber]_vars

NumberDone == call.fn = "score_invoice_number" /\ ret # Pending

\* the text has a letter and a digit
MixedLettersDigits(s) ==
    /\ \E i \in 1..Len(s) : isalpha(s[i])
    /\ \E i \in 1..Len(s) : isdigit(s[i])

\* C21: score_invoice_number returns 0 for an absent number, 30 for a number
\* that is not a mix of letters and digits (digits only, or letters only), 100
\* for a mixed number whose length is in 5..20, and 70 for any other mixed
\* number.
C21_NumberScore ==
    (NumberDone /\ (call.arg = None \/ IsStr(call.arg))) =>
        ret = IF call.arg = None \/ call.arg.v = <<>> THEN RInt(0)
              ELSE IF ~MixedLettersDigits(strip(call.arg.v)) THEN RInt(30)
              ELSE IF Len(strip(call.arg.v)) \in 5..20 THEN RInt(100)
              ELSE RInt(70)

----------------------------------------------------------------------------
(* Amounts of the canonical document (checked under SpecCanon) *)

\* none, or a number with at most two decimals
TwoDecimalsOrNone(x) == x = None \/ (x.t = "float" /\ x.v % 10 = 0)

\* every listed field of the dict d is none or a 2-decimal number
AmountsRounded(d, fields) == \A f \in fields : TwoDecimalsOrNone(Get(d, f))

ItemAmountsRounded(item) ==
    /\ AmountsRounded(item, {"quantity", "unit_price", "line_total"})
    /\ (Has(item, "discount") /\ IsDict(item.v["discount"])) =>
          AmountsRounded(item.v["discount"],
                         {"discount_percent", "discount_amount", "actual_price",
                          "discounted_price"})

PricingAmountsRounded(pricing) ==
    /\ AmountsRounded(pricing, {"subtotal", "total_amount", "total_discount"})
    /\ (Has(pricing, "tax") /\ IsDict(pricing.v["tax"])) =>
          AmountsRounded(pricing.v["tax"], {"tax_percent", "tax_amount"})
    /\ (Has(pricing, "shipping") /\ IsDict(pricing.v["shipping"])) =>
          AmountsRounded(pricing.v["shipping"], {"shipping_amount"})

\* C22: after canonicalize_invoice completes without an internal failure,
\* every amount field of the document (item quantity, unit_price, line_total,
\* the discount amounts including discounted_price, subtotal, total_amount,
\* total_discount, tax and shipping amounts) is none or a number rounded to 2
\* decimals, also when the raw value was already numeric.
C22_AmountsTwoDecimals ==
    (Canonicalized /\ \A env \in Environments : ~canonicalize_invoice_failed(call.arg, env)) =>
        /\ (Has(ret.doc, "items") /\ IsList(ret.doc.v["items"])) =>
              \A i \in 1..Len(ret.doc.v["items"].v) :
                  ItemAmountsRounded(ret.doc.v["items"].v[i])
        /\ Has(ret.doc, "pricing_summary") =>
              PricingAmountsRounded(ret.doc.v["pricing_summary"])

----------------------------------------------------------------------------
(* Properties of POST /api/extract (checked under Spec) *)

\* C23: canonicalize_invoice does not modify the raw extraction it is given,
\* so the extracted_data that /extract returns is still the document the
\* extractor produced.
C23_ExtractedDataIsRaw ==
    Answered200 => ret.body.extracted_data = call.arg.extraction.doc

\* the request passes the token, file, size and quality gates and the
\* extractor returned a structurally valid document
GatesPassed(req) ==
    /\ ~IsRaise(token_user_id(req.token)) /\ Truthy(token_user_id(req.token))
    /\ req.file.t = "file" /\ req.file.filename # <<>>
    /\ req.file.length <= MAX_FILE_SIZE
    /\ (is_pdf(req.file.filename) \/ ~req.is_bad)
    /\ ~IsRaise(req.extraction) /\ req.extraction.t = "json"
    /\ validate_response_structure(req.extraction.doc) = "ok"

\* C24: when the invoice model is initialised and the request passes every
\* gate, POST /api/extract stores exactly one invoice document tagged with the
\* caller's user id, plus one 'extracted' audit entry, and answers 200 with
\* success = true and the stored invoice_id.
C24_StoresAndAnswers200 ==
    (Extracted /\ call.arg.invoice_model /\ GatesPassed(call.arg)) =>
        /\ ret.code = 200
        /\ ret.body.success
        /\ Len(db.invoices) = 1
        /\ db.invoices[1].userId = token_user_id(call.arg.token)
        /\ ret.body.invoice_id = db.invoices[1]._id
        /\ Len(db.audit_log) = 1
        /\ db.audit_log[1].action = "extracted"

----------------------------------------------------------------------------
(* Further properties of the scorer (checked under SpecScore) *)

NullOrText(x) == x.t \in {"none", "str"}

\* the sections and the items are mappings, text fields are text or null and
\* an item's discount is a mapping, null or missing
NullableDoc(doc) ==
    LET meta == Get(doc, "invoice_metadata")
        vendor == Get(doc, "vendor_info")
        items == Get(doc, "items")
    IN  /\ IsDict(meta) /\ \A k \in {"company_name", "date", "time"} : NullOrText(Get(meta, k))
        /\ IsDict(vendor) /\ NullOrText(Get(vendor, "vendor_name"))
        /\ IsDict(Get(doc, "pricing_summary"))
        /\ IsList(items)
        /\ \A i \in 1..Len(items.v) :
              IsDict(items.v[i]) /\ Get(items.v[i], "discount").t \in {"none", "dict"}

\* doc with every null discount left out of its item
WithoutNullDiscounts(doc) ==
    SetKey(doc, "items",
           List([i \in 1..Len(doc.v["items"].v) |->
                    IF Get(doc.v["items"].v[i], "discount") = None
                    THEN SetKey(doc.v["items"].v[i], "discount", Absent)
                    ELSE doc.v["items"].v[i]]))

\* C25: for a document whose sections and items are mappings and whose
\* optional fields may be null, in particular an item whose discount is null,
\* calculate_confidence returns a genuine status, never the 'error' sentinel,
\* and scores the item like the item without a discount.
C25_NullDiscountScored ==
    (Scored /\ NullableDoc(call.arg)) =>
        /\ ret.status \in Genuine
        /\ ret = calculate_confidence(WithoutNullDiscounts(call.arg))

\* C26: score_pricing returns 100 only for a pricing summary in which both
\* subtotal and total_amount are present; a summary missing either one scores
\* strictly less than 100 (scores are held in hundredths).
C26_FullPricingNeedsBoth ==
    (Scored /\ ret.status # "error" /\ IsDict(ArgSection("pricing_summary"))) =>
        (ret.field_confidence.pricing = 10000 =>
            /\ Get(ArgSection("pricing_summary"), "subtotal") # None
            /\ Get(ArgSection("pricing_summary"), "total_amount") # None)

----------------------------------------------------------------------------
(* InvoiceModel over the invoices and audit_log collections, and the routes  *)
(* that read them.  A stored document is a record; _id is the text of its    *)
(* ObjectId and a timestamp is the clock reading of the call.                *)

MaxInvoices == 2
MaxAuditLog == 3
MaxTime == 2

\* texts that ObjectId() accepts; the first MaxInvoices are what insert_one
\* hands out, the last is the id of no stored document
ObjectIds == <<"65a000000000000000000001", "65a000000000000000000002",
               "65a000000000000000000009">>

IsObjectId(invoice_id) == invoice_id \in Range(ObjectIds)

RECURSIVE MaxOf(_)
MaxOf(S) == IF S = {} THEN 0 ELSE LET x == CHOOSE y \in S : TRUE
                                  IN  IF MaxOf(S \ {x}) > x THEN MaxOf(S \ {x}) ELSE x

\* the latest clock reading the collections hold
LatestTime(d) ==
    MaxOf({d.invoices[i].updated_at.v : i \in 1..Len(d.invoices)}
          \cup {d.audit_log[i].timestamp.v : i \in 1..Len(d.audit_log)})

\* datetime.utcnow() of a call made now: not before anything stored
Now(d) == {IntV(n) : n \in {m \in 1..MaxTime : m >= LatestTime(d)}}

\* the position of the document with this _id, or 0
Position(d, invoice_id) ==
    IF \E i \in 1..Len(d.invoices) : d.invoices[i]._id = invoice_id
    THEN CHOOSE i \in 1..Len(d.invoices) : d.invoices[i]._id = invoice_id
    ELSE 0

\* save_extraction: insert the invoice and its 'extracted' audit entry
save_extraction(d, extracted_data, canonical_data, confidence_scores, status, original_filename, metadata, now) ==
    LET invoice_id == ObjectIds[Len(d.invoices) + 1]
        invoice_doc ==
            [_id |-> invoice_id,
             extracted_data |-> extracted_data,
             canonical_data |-> canonical_data,
             confidence_scores |-> confidence_scores,
             status |-> status,
             created_at |-> now,
             updated_at |-> now,
             original_filename |-> original_filename,
             approved_by |-> None,
             approved_at |-> None,
             notes |-> "",
             corrections |-> EmptyDictV,
             api_metadata |-> IF Falsy(metadata) THEN EmptyDictV ELSE metadata]
        usage == GetD(IF Falsy(metadata) THEN EmptyDictV ELSE metadata, "usage", EmptyDictV)
        entry ==
            [invoice_id |-> invoice_id,
             action |-> "extracted",
             timestamp |-> now,
             changes |-> [status |-> status,
                          confidence |-> confidence_scores.overall_confidence,
                          tokens_used |-> Get(usage, "total_tokens")]]
    IN  [ret |-> invoice_id,
         db |-> [invoices |-> Append(d.invoices, invoice_doc),
                 audit_log |-> Append(d.audit_log, entry)]]

\* update_one({"_id": ...}, {"$set": fields}): the collection after the
\* update and whether a document was modified
update_one(invoices, i, fields) ==
    LET updated == [k \in DOMAIN invoices[i] |->
                       IF k \in DOMAIN fields THEN fields[k] ELSE invoices[i][k]]
    IN  IF i = 0 THEN [invoices |-> invoices, modified |-> FALSE]
        ELSE [invoices |-> [invoices EXCEPT ![i] = updated],
              modified |-> updated # invoices[i]]

update_status(d, invoice_id, new_status, notes, approved_by, now) ==
    IF ~IsObjectId(invoice_id) THEN [ret |-> FALSE, db |-> d]
    ELSE LET result == update_one(d.invoices, Position(d, invoice_id),
                           [status |-> new_status,
                            updated_at |-> now,
                            notes |-> notes,
                            approved_by |-> approved_by,
                            approved_at |-> IF new_status = "approved" THEN now ELSE None])
             entry == [invoice_id |-> invoice_id,
                       action |-> "status_updated",
                       new_status |-> new_status,
                       timestamp |-> now,
                       approved_by |-> approved_by]
         IN  [ret |-> result.modified,
              db |-> [invoices |-> result.invoices,
                      audit_log |-> Append(d.audit_log, entry)]]

save_corrections(d, invoice_id, corrections, now) ==
    IF ~IsObjectId(invoice_id) THEN [ret |-> FALSE, db |-> d]
    ELSE LET result == update_one(d.invoices, Position(d, invoice_id),
                           [corrections |-> corrections,
                            status |-> "approved",
                            updated_at |-> now,
                            notes |-> "Manually corrected"])
             entry == [invoice_id |-> invoice_id,
                       action |-> "corrected",
                       timestamp |-> now,
                       changes |-> corrections]
         IN  [ret |-> result.modified,
              db |-> [invoices |-> result.invoices,
                      audit_log |-> Append(d.audit_log, entry)]]

\* the documents of a collection matching a predicate set, newest created_at
\* first (documents created at the same time stay in insertion order)
RECURSIVE newest_first(_, _)
newest_first(invoices, S) ==
    IF S = {} THEN <<>>
    ELSE LET first == CHOOSE i \in S :
                          \A j \in S : \/ invoices[j].created_at.v < invoices[i].created_at.v
                                       \/ (invoices[j].created_at.v = invoices[i].created_at.v
                                           /\ i <= j)
         IN  <<invoices[first]>> \o newest_first(invoices, S \ {first})

\* cursor.limit(n); a limit of 0 is no limit
limit_to(docs, n) == IF n > 0 /\ Len(docs) > n THEN SubSeq(docs, 1, n) ELSE docs

\* get_all_invoices(status=status, limit=limit, skip=0); a status of None or
\* '' ("" here) puts no condition in the query
get_all_invoices(d, status, limit) ==
    limit_to(newest_first(d.invoices,
                          {i \in 1..Len(d.invoices) :
                              status = "" \/ d.invoices[i].status = status}),
             limit)

get_review_queue(d, limit) == get_all_invoices(d, "needs_review", limit)

\* find({"userId": user_id}): a document matches when its userId field holds
\* user_id, and a query for null also matches a document without the field
matches_userId(doc, user_id) ==
    IF "userId" \in DOMAIN doc THEN doc.userId = user_id ELSE user_id = None

\* int(request.args.get('limit', 50)), or Raise when the text is no integer
limit_arg(limit) ==
    IF limit = Absent THEN 50
    ELSE IF limit.v # <<>> /\ \A i \in 1..Len(limit.v) : limit.v[i] \in Range(Digits)
    THEN DigitsVal(limit.v) ELSE -1

\* GET /api/invoices
get_invoices(req, d) ==
    IF ~req.invoice_model
    THEN Response(500, [error |-> "Database not initialized"])
    ELSE IF IsRaise(token_user_id(req.token))
    THEN Response(401, [error |-> "Invalid token"])
    ELSE IF limit_arg(req.limit) < 0
    THEN Response(500, [error |-> "Internal Server Error"])
    ELSE LET user_id == token_user_id(req.token)
             invoices == limit_to(newest_first(d.invoices,
                                      {i \in 1..Len(d.invoices) :
                                          matches_userId(d.invoices[i], user_id)}),
                                  limit_arg(req.limit))
         IN  Response(200, [success |-> TRUE, count |-> Len(invoices),
                            invoices |-> invoices])

\* what the callers of the model pass to it
ConfidenceResults ==
    {[t |-> "ret", overall_confidence |-> 9000, status |-> "auto_approved"],
     [t |-> "ret", overall_confidence |-> 7000, status |-> "needs_review"],
     [t |-> "ret", overall_confidence |-> 4000, status |-> "low_confidence"],
     [t |-> "ret", overall_confidence |-> 0, status |-> "error"]}

Metadata == Dict([usage |-> Dict([total_tokens |-> IntV(1200)])])

\* the ids of the stored documents, an ObjectId of no document, and a text
\* ObjectId() rejects
InvoiceIds(d) ==
    {d.invoices[i]._id : i \in 1..Len(d.invoices)} \cup {ObjectIds[3], "undefined"}

NewStatuses == {"approved", "rejected", "needs_review"}

Corrections == Dict([total_amount |-> Float(11800)])

Limits == {1, 20}

LimitArgs == {Absent, Str(<<"1">>), Str(<<"x">>)}

InvoicesRequest(invoice_model, token, limit) ==
    [invoice_model |-> invoice_model, token |-> token, limit |-> limit]

\* every token with the default limit, every limit with the base token, and
\* a request made before the model is set
InvoicesRequests ==
    {InvoicesRequest(TRUE, token, Absent) : token \in Tokens}
    \cup {InvoicesRequest(TRUE, base_token, limit) : limit \in LimitArgs}
    \cup {InvoicesRequest(FALSE, base_token, Absent)}

InitStore ==
    /\ call = [fn |-> "InvoiceModel", arg |-> None]
    /\ ret = None
    /\ db = EmptyDb

SaveExtraction ==
    /\ Len(db.invoices) < MaxInvoices
    /\ Len(db.audit_log) < MaxAuditLog
    /\ \E scores \in ConfidenceResults, now \in Now(db) :
          LET result == save_extraction(db, base_raw, base_raw, scores, scores.status,
                                        Str(txt_scan_png), Metadata, now)
          IN  /\ call' = [fn |-> "save_extraction", arg |-> <<scores.status>>]
              /\ ret' = result.ret
              /\ db' = result.db

UpdateStatus ==
    /\ Len(db.audit_log) < MaxAuditLog
    /\ \E invoice_id \in InvoiceIds(db), new_status \in NewStatuses, now \in Now(db) :
          LET result == update_status(db, invoice_id, new_status,
                                      "Auto-approved by system", None, now)
          IN  /\ call' = [fn |-> "update_status", arg |-> <<invoice_id, new_status>>]
              /\ ret' = result.ret
              /\ db' = result.db

SaveCorrections ==
    /\ Len(db.audit_log) < MaxAuditLog
    /\ \E invoice_id \in InvoiceIds(db), now \in Now(db) :
          LET result == save_corrections(db, invoice_id, Corrections, now)
          IN  /\ call' = [fn |-> "save_corrections", arg |-> <<invoice_id>>]
              /\ ret' = result.ret
              /\ db' = result.db

GetReviewQueue ==
    /\ \E limit \in Limits :
          /\ call' = [fn |-> "get_review_queue", arg |-> <<limit>>]
          /\ ret' = get_review_queue(db, limit)
    /\ UNCHANGED db

GetInvoices ==
    /\ \E req \in InvoicesRequests :
          /\ call' = [fn |-> "get_invoices", arg |-> req]
          /\ ret' = get_invoices(req, db)
    /\ UNCHANGED db

NextStore ==
    \/ SaveExtraction
    \/ UpdateStatus
    \/ SaveCorrections
    \/ GetReviewQueue
    \/ GetInvoices

SpecStore == InitStore /\ [][NextStore]_vars

----------------------------------------------------------------------------
(* Properties of the stored invoices *)

\* the stored invoices that still wait for a human reviewer
AwaitingReview ==
    {db.invoices[i] : i \in {j \in 1..Len(db.invoices) :
        db.invoices[j].status \in {"needs_review", "low_confidence", "error"}}}

\* C27: get_review_queue returns every stored invoice whose status is
\* needs_review, low_confidence or error, up to its limit: all of them when
\* they are no more than the limit, and otherwise limit of them.
C27_ReviewQueueComplete ==
    call.fn = "get_review_queue" =>
        IF Cardinality(AwaitingReview) <= call.arg[1]
        THEN AwaitingReview \subseteq Range(ret)
        ELSE Len(ret) = call.arg[1] /\ Range(ret) \subseteq AwaitingReview

\* the invoice documents a response of GET /api/invoices carries
ReturnedInvoices == IF ret.code = 200 THEN Range(ret.body.invoices) ELSE {}

\* C28: GET /api/invoices returns only invoices whose stored userId equals the
\* email-or-userId of the caller's token, and returns no invoice document to
\* a caller whose token carries neither.
C28_OnlyOwnInvoices ==
    call.fn = "get_invoices" =>
        /\ \A inv \in ReturnedInvoices :
              /\ "userId" \in DOMAIN inv
              /\ inv.userId = token_user_id(call.arg.token)
        /\ (IsRaise(token_user_id(call.arg.token)) \/ Falsy(token_user_id(call.arg.token)))
              => ReturnedInvoices = {}

\* C29: every stored invoice whose status is 'approved' has an approved_at
\* timestamp that is not null.
C29_ApprovedHasTimestamp ==
    \A i \in 1..Len(db.invoices) :
        db.invoices[i].status = "approved" => db.invoices[i].approved_at # None

\* every audit_log entry names the _id of a stored invoice
AuditRefersToStored ==
    \A i \in 1..Len(db.audit_log) :
        \E j \in 1..Len(db.invoices) : db.invoices[j]._id = db.audit_log[i].invoice_id

\* an update_status or save_corrections call that returns False
ReturnsFalse ==
    /\ call'.fn \in {"update_status", "save_corrections"}
    /\ ret' = FALSE

\* C30: an update_status or save_corrections call that returns False leaves
\* the invoices collection and the audit_log as they were, and every
\* audit_log entry refers to a stored invoice.
C30_FalseLeavesStoreUnchanged ==
    /\ [][ReturnsFalse => db' = db]_vars
    /\ []AuditRefersToStored

====
